---- MODULE Spec2Model ----
(***************************************************************************)
(* A model of the mlx composite operations (mlx/fast.cpp), the random key  *)
(* sequence (mlx/random.cpp) and their argument validation.                *)
(*                                                                         *)
(* Arrays are records [shape, dtype]; an optional array is a sequence of   *)
(* length 0 (nullopt) or 1.  A call of a composite operation is recorded   *)
(* in args (its inputs) and result (what it returned or threw).            *)
(***************************************************************************)
EXTENDS Integers, Sequences, FiniteSets, TLC

VARIABLES
    key_,       \* KeySequence::key_ of the default KeySequence
    lastSeed,   \* history: the seed of the last seed()/construction
    returned,       \* history: keys returned by next() since the last seed()
    tpc,        \* per caller: position inside KeySequence::next()
    tout,       \* per caller: the local `out` of KeySequence::next()
    tret,       \* per caller: the key next() returned
    args,       \* inputs of the last composite-operation call
    result      \* its outcome

rngVars == <<key_, lastSeed, returned>>
thrVars == <<tpc, tout, tret>>
callVars == <<args, result>>
vars == <<key_, lastSeed, returned, tpc, tout, tret, args, result>>

(***************************************************************************)
(* Bounds                                                                  *)
(***************************************************************************)
\* width of one key word (uint32 in the program)
WordBits == 2
\* next() calls followed after one seed()
MaxNext == 6

RECURSIVE Pow2(_)
Pow2(n) == IF n = 0 THEN 1 ELSE 2 * Pow2(n - 1)

WordMod == Pow2(WordBits)
Words == 0 .. (WordMod - 1)
Seeds == 0 .. (WordMod * WordMod - 1)
Keys == Words \X Words

(***************************************************************************)
(* mlx/random.cpp                                                          *)
(***************************************************************************)

\* array key(uint64_t seed): [seed >> 32, (uint32_t) seed]
key(seed) == << seed \div WordMod, seed % WordMod >>

\* The RandomBits primitive for one counter pair: two words that depend only
\* on the key and the counters (add, rotate and multiply rounds, word-wide).
RandomBitsHash(k, c0, c1) ==
    LET a  == (c0 + k[1]) % WordMod
        b  == (c1 + k[2]) % WordMod
        x0 == (a + b) % WordMod
        x1 == ((2 * b + (b \div (WordMod \div 2))) + x0) % WordMod
        y0 == (x0 + x1 + k[2] + 1) % WordMod
        y1 == (3 * x1 + y0 + k[1] + c0) % WordMod
    IN  << y0, y1 >>

\* bits({num, 2}, 4, key): num*2 words, word i paired with word i + num
\* under the counters (i, i + num)
bits_num2(k) ==
    LET h0 == RandomBitsHash(k, 0, 2)
        h1 == RandomBitsHash(k, 1, 3)
    IN  << h0[1], h1[1], h0[2], h1[2] >>

\* std::pair<array, array> split(const array& key): the two rows of the
\* {2, 2} block of fresh words
split(k) ==
    LET w == bits_num2(k)
    IN  << << w[1], w[2] >>, << w[3], w[4] >> >>

\* A next() that returns the half it keeps and keeps the half it returns.
KeySequence_next_swapped(k) ==
    LET out == split(k) IN [key_ |-> out[2], ret |-> out[1]]

\* array KeySequence::next(): out = split(key_); key_ = out.first;
\* return out.second
KeySequence_next(k) ==
    LET out == split(k) IN [key_ |-> out[1], ret |-> out[2]]

\* void KeySequence::seed(uint64_t seed)
KeySequence_seed(seed) == key(seed)

(***************************************************************************)
(* Idle values of the parts a specification does not exercise              *)
(***************************************************************************)
Callers == {1, 2}
NoKey == << 0, 0 >>
NoOut == << NoKey, NoKey >>
ThreadsIdle ==
    /\ tpc = [t \in Callers |-> "idle"]
    /\ tout = [t \in Callers |-> NoOut]
    /\ tret = [t \in Callers |-> NoKey]
RngIdle ==
    /\ key_ = NoKey
    /\ lastSeed = 0
    /\ returned = << >>
NoCall == [op |-> "none"]
CallIdle ==
    /\ args = NoCall
    /\ result = NoCall

\* The caller takes the outcome of a call; the next call starts afresh.
Return ==
    /\ args.op # "none"
    /\ args' = NoCall
    /\ result' = NoCall
    /\ UNCHANGED <<rngVars, thrVars>>

(***************************************************************************)
(* Spec: one caller using the default KeySequence                          *)
(***************************************************************************)

\* KeySequence::KeySequence(uint64_t seed)
Init ==
    /\ \E s \in Seeds :
          /\ key_ = key(s)
          /\ lastSeed = s
    /\ returned = << >>
    /\ ThreadsIdle
    /\ CallIdle

\* random::seed(s) / KeySequence::seed(s)
Seed ==
    \E s \in Seeds :
        /\ key_' = KeySequence_seed(s)
        /\ lastSeed' = s
        /\ returned' = << >>
        /\ UNCHANGED <<thrVars, callVars>>

\* KeySequence::next()
NextKey ==
    /\ Len(returned) < MaxNext
    /\ LET r == KeySequence_next(key_)
       IN  /\ key_' = r.key_
           /\ returned' = Append(returned, r.ret)
    /\ UNCHANGED <<lastSeed, thrVars, callVars>>

Next == Seed \/ NextKey

Spec == Init /\ [][Next]_vars

\* The keys n successive next() calls return from stored key k.
RECURSIVE KeysFrom(_, _)
KeysFrom(k, n) ==
    IF n = 0 THEN << >>
    ELSE << split(k)[2] >> \o KeysFrom(split(k)[1], n - 1)

\* C1: the keys returned since the last seed(s) are a function of s and of
\* their number alone: they are the keys obtained by splitting on from
\* [high word of s, low word of s], whatever was called before the seed(s).
C1_SeedDeterminesKeys ==
    returned = KeysFrom(<< lastSeed \div WordMod, lastSeed % WordMod >>, Len(returned))

\* C1 witness: a seed with a non-zero high and low word, next() called
\* several times after it
C1_Witness ==
    /\ lastSeed \div WordMod # 0
    /\ lastSeed % WordMod # 0
    /\ lastSeed \div WordMod # lastSeed % WordMod
    /\ Len(returned) >= 3

(***************************************************************************)
(* SpecConc: two callers inside KeySequence::next() of the same (default)  *)
(* KeySequence.  next() takes no lock, so its statements interleave.       *)
(***************************************************************************)

InitConc ==
    /\ \E s \in Seeds :
          /\ key_ = key(s)
          /\ lastSeed = s
    /\ returned = << >>
    /\ ThreadsIdle
    /\ CallIdle

\* auto out = split(key_);
NextSplit(t) ==
    /\ tpc[t] = "idle"
    /\ tout' = [tout EXCEPT ![t] = split(key_)]
    /\ tpc' = [tpc EXCEPT ![t] = "store"]
    /\ UNCHANGED <<rngVars, tret, callVars>>

\* key_ = out.first;
NextStore(t) ==
    /\ tpc[t] = "store"
    /\ key_' = tout[t][1]
    /\ tpc' = [tpc EXCEPT ![t] = "return"]
    /\ UNCHANGED <<lastSeed, returned, tout, tret, callVars>>

\* return out.second;
NextReturn(t) ==
    /\ tpc[t] = "return"
    /\ tret' = [tret EXCEPT ![t] = tout[t][2]]
    /\ tpc' = [tpc EXCEPT ![t] = "done"]
    /\ UNCHANGED <<rngVars, tout, callVars>>

NextConc == \E t \in Callers : NextSplit(t) \/ NextStore(t) \/ NextReturn(t)

SpecConc == InitConc /\ [][NextConc]_vars

BothReturned == \A t \in Callers : tpc[t] = "done"

\* C3: once both concurrent next() calls have returned, the stored key is
\* the one two successive sequential next() calls leave, and the two
\* returned keys are the two keys those sequential calls return (so no two
\* callers split the same stored key).
C3_NextAtomic ==
    BothReturned =>
        LET k0 == key(lastSeed)
            k1 == split(k0)[1]
            a1 == split(k0)[2]
            k2 == split(k1)[1]
            a2 == split(k1)[2]
        IN  /\ key_ = k2
            /\ << tret[1], tret[2] >> \in { << a1, a2 >>, << a2, a1 >> }

(***************************************************************************)
(* mlx/fast.cpp: Custom::vjp and Custom::jvp                               *)
(***************************************************************************)
\* primals of a Custom primitive
MaxPrimals == 3
\* entries of argnums
MaxArgnums == 3

PrimalPool ==
    { [shape |-> << 2 >>, dtype |-> "float32"],
      [shape |-> << 2, 3 >>, dtype |-> "float16"] }

RECURSIVE SeqsUpTo(_, _)
\* all sequences over S of length 0 .. n
SeqsUpTo(S, n) ==
    IF n = 0 THEN { << >> }
    ELSE LET shorter == SeqsUpTo(S, n - 1)
         IN  shorter \cup { Append(q, x) : q \in shorter, x \in S }

\* mlx::core::vjp(fallback_, primals, cotangents).second: the fallback's
\* cotangent of every primal, in primal order
FallbackVjps(primals) ==
    [i \in 1 .. Len(primals) |->
        [wrt |-> i - 1, shape |-> primals[i].shape, dtype |-> primals[i].dtype]]

RECURSIVE VjpLoopNoAdvance(_, _, _, _, _)
\* The loop of Custom::vjp with the j++ left out.
VjpLoopNoAdvance(vjps, argnums, i, j, vjp_outs) ==
    IF ~(i < Len(vjps)) THEN vjp_outs
    ELSE IF j < Len(argnums) /\ i = argnums[j + 1]
         THEN VjpLoopNoAdvance(vjps, argnums, i + 1, j,
                               Append(vjp_outs, vjps[i + 1]))
         ELSE VjpLoopNoAdvance(vjps, argnums, i + 1, j, vjp_outs)

RECURSIVE VjpLoop(_, _, _, _, _)
\* for (int i = 0, j = 0; i < vjps.size(); ++i)
\*   if (j < argnums.size() && i == argnums[j]) { push_back(vjps[i]); j++; }
VjpLoop(vjps, argnums, i, j, vjp_outs) ==
    IF ~(i < Len(vjps)) THEN vjp_outs
    ELSE IF j < Len(argnums) /\ i = argnums[j + 1]
         THEN VjpLoop(vjps, argnums, i + 1, j + 1,
                      Append(vjp_outs, vjps[i + 1]))
         ELSE VjpLoop(vjps, argnums, i + 1, j, vjp_outs)

\* std::vector<array> Custom::vjp(primals, cotangents, argnums, outputs)
Custom_vjp(primals, argnums) ==
    VjpLoop(FallbackVjps(primals), argnums, 0, 0, << >>)

\* zeros_like(primals[i])
zeros_like(a) == [kind |-> "zeros", idx |-> -1, shape |-> a.shape, dtype |-> a.dtype]

RECURSIVE JvpLoopReuse(_, _, _, _, _, _)
\* The loop of Custom::jvp reading tangents[j] without advancing j.
JvpLoopReuse(primals, tangents, argnums, i, j, all_tangents) ==
    IF ~(i < Len(primals)) THEN all_tangents
    ELSE IF j < Len(argnums) /\ i = argnums[j + 1]
         THEN JvpLoopReuse(primals, tangents, argnums, i + 1, j,
                           Append(all_tangents, tangents[j + 1]))
         ELSE JvpLoopReuse(primals, tangents, argnums, i + 1, j,
                           Append(all_tangents, zeros_like(primals[i + 1])))

RECURSIVE JvpLoop(_, _, _, _, _, _)
\* for (int i = 0, j = 0; i < primals.size(); i++)
\*   if (j < argnums.size() && i == argnums[j])
\*     all_tangents.emplace_back(tangents[j++]);
\*   else all_tangents.emplace_back(zeros_like(primals[i]));
JvpLoop(primals, tangents, argnums, i, j, all_tangents) ==
    IF ~(i < Len(primals)) THEN all_tangents
    ELSE IF j < Len(argnums) /\ i = argnums[j + 1]
         THEN JvpLoop(primals, tangents, argnums, i + 1, j + 1,
                      Append(all_tangents, tangents[j + 1]))
         ELSE JvpLoop(primals, tangents, argnums, i + 1, j,
                      Append(all_tangents, zeros_like(primals[i + 1])))

\* The tangent list Custom::jvp hands to mlx::core::jvp(fallback_, ...)
Custom_jvp(primals, tangents, argnums) ==
    JvpLoop(primals, tangents, argnums, 0, 0, << >>)

\* One tangent per entry of argnums: tangent j belongs to primal argnums[j].
SuppliedTangents(primals, argnums) ==
    [j \in 1 .. Len(argnums) |->
        [kind |-> "supplied", idx |-> j - 1,
         shape |-> primals[argnums[j] + 1].shape,
         dtype |-> primals[argnums[j] + 1].dtype]]

InitCustom ==
    /\ RngIdle
    /\ ThreadsIdle
    /\ CallIdle

CustomInputs ==
    { in \in [primals : SeqsUpTo(PrimalPool, MaxPrimals) \ { << >> },
              argnums : SeqsUpTo(0 .. (MaxPrimals - 1), MaxArgnums)] :
        \A j \in 1 .. Len(in.argnums) : in.argnums[j] < Len(in.primals) }

CallCustomVjp ==
    /\ args.op = "none"
    /\ \E in \in CustomInputs :
        /\ args' = [op |-> "Custom::vjp", primals |-> in.primals,
                    argnums |-> in.argnums]
        /\ result' = [op |-> "Custom::vjp",
                      vjps |-> Custom_vjp(in.primals, in.argnums)]
        /\ UNCHANGED <<rngVars, thrVars>>

CallCustomJvp ==
    /\ args.op = "none"
    /\ \E in \in CustomInputs :
        LET tangents == SuppliedTangents(in.primals, in.argnums)
        IN  /\ args' = [op |-> "Custom::jvp", primals |-> in.primals,
                        tangents |-> tangents, argnums |-> in.argnums]
            /\ result' = [op |-> "Custom::jvp",
                          all_tangents |->
                              Custom_jvp(in.primals, tangents, in.argnums)]
            /\ UNCHANGED <<rngVars, thrVars>>

NextCustom == CallCustomVjp \/ CallCustomJvp \/ Return

SpecCustom == InitCustom /\ [][NextCustom]_vars

StrictlyIncreasing(s) == \A j \in 1 .. (Len(s) - 1) : s[j] < s[j + 1]

\* C4: for strictly increasing, in-range argnums, Custom::vjp returns one
\* cotangent per entry of argnums, entry j being the fallback's cotangent
\* of input argnums[j]; nothing else is returned.
C4_VjpSelectsArgnums ==
    (args.op = "Custom::vjp" /\ StrictlyIncreasing(args.argnums)) =>
        /\ Len(result.vjps) = Len(args.argnums)
        /\ \A j \in 1 .. Len(args.argnums) :
              /\ result.vjps[j].wrt = args.argnums[j]
              /\ result.vjps[j] = FallbackVjps(args.primals)[args.argnums[j] + 1]

\* C4 witness: three primals, the first and the last requested, the middle
\* one omitted
C4_Witness ==
    /\ args.op = "Custom::vjp"
    /\ Len(args.primals) = 3
    /\ args.argnums = << 0, 2 >>
    /\ Len(result.vjps) = 2

\* C5: for strictly increasing argnums, the tangent list handed to the
\* fallback has one tangent per primal; position argnums[j] holds
\* tangents[j], every other position a zero tangent with that primal's
\* shape and dtype, and each supplied tangent is used exactly once.
C5_JvpFillsZeros ==
    (args.op = "Custom::jvp" /\ StrictlyIncreasing(args.argnums)) =>
        LET all == result.all_tangents
            listed == { args.argnums[j] : j \in 1 .. Len(args.argnums) }
        IN  /\ Len(all) = Len(args.primals)
            /\ \A j \in 1 .. Len(args.argnums) :
                  /\ all[args.argnums[j] + 1] = args.tangents[j]
                  /\ Cardinality({ i \in 1 .. Len(all) :
                                     all[i] = args.tangents[j] }) = 1
            /\ \A i \in 1 .. Len(all) :
                  (i - 1) \notin listed =>
                      /\ all[i].kind = "zeros"
                      /\ all[i].shape = args.primals[i].shape
                      /\ all[i].dtype = args.primals[i].dtype

\* C5 witness: three primals of two different shapes, tangents for the
\* first and the last, a zero tangent in between
C5_Witness ==
    /\ args.op = "Custom::jvp"
    /\ Len(args.primals) = 3
    /\ args.argnums = << 0, 2 >>
    /\ args.primals[2].shape # args.primals[1].shape
    /\ result.all_tangents[2].kind = "zeros"
    /\ result.all_tangents[3].kind = "supplied"

(***************************************************************************)
(* mlx/fast.cpp: rms_norm and layer_norm                                   *)
(***************************************************************************)
\* rank of the normalised input x
MaxRank == 2

Dtypes == { "bool_", "int32", "float16", "bfloat16", "float32" }
Floating == { "float16", "bfloat16", "float32" }

\* issubdtype(t, floating)
issubdtype_floating(t) == t \in Floating

\* promote_types(a, b) on the dtypes above
promote_types(a, b) ==
    IF a = b THEN a
    ELSE IF a = "bool_" THEN b
    ELSE IF b = "bool_" THEN a
    ELSE IF a = "int32" THEN b
    ELSE IF b = "int32" THEN a
    ELSE "float32"

RECURSIVE result_type(_)
\* result_type(arrays): the promotion of all their dtypes
result_type(arrs) ==
    IF Len(arrs) = 1 THEN arrs[1].dtype
    ELSE promote_types(arrs[1].dtype, result_type(Tail(arrs)))

ndim(a) == Len(a.shape)

RECURSIVE ShapeProduct(_)
ShapeProduct(shape) ==
    IF shape = << >> THEN 1 ELSE shape[1] * ShapeProduct(Tail(shape))

\* array::size()
size(a) == ShapeProduct(a.shape)

\* array::shape(-1)
last_dim(a) == a.shape[Len(a.shape)]

\* broadcast_shapes(s1, s2): << >> stands for "cannot be broadcast" only
\* together with ok = FALSE
broadcast_shapes(s1, s2) ==
    LET n == IF Len(s1) > Len(s2) THEN Len(s1) ELSE Len(s2)
        d1(i) == IF i > n - Len(s1) THEN s1[i - (n - Len(s1))] ELSE 1
        d2(i) == IF i > n - Len(s2) THEN s2[i - (n - Len(s2))] ELSE 1
        fits == \A i \in 1 .. n : d1(i) = d2(i) \/ d1(i) = 1 \/ d2(i) = 1
    IN  [ok |-> fits,
         shape |-> IF fits
                   THEN [i \in 1 .. n |-> IF d1(i) = 1 THEN d2(i) ELSE d1(i)]
                   ELSE << >>]

InvalidArgument(opname, what) ==
    [op |-> opname, status |-> "invalid_argument", what |-> what,
     shape |-> << >>, dtype |-> "none"]

Returned(opname, shape, dtype) ==
    [op |-> opname, status |-> "ok", what |-> "",
     shape |-> shape, dtype |-> dtype]

\* multiply / add of two arrays in a fallback: broadcasts, or throws
Elementwise(opname, shape, dtype, other) ==
    LET b == broadcast_shapes(shape, other.shape)
    IN  IF b.ok THEN Returned(opname, b.shape, promote_types(dtype, other.dtype))
        ELSE InvalidArgument(opname, "broadcast_shapes")

\* array rms_norm(x, weight, eps, s); weight is << >> or << w >>; fused is
\* !RMSNorm::use_fallback(s)
rms_norm(x, weight, fused) ==
    LET has_weight == Len(weight) = 1
    IN  IF ndim(x) = 0
        THEN InvalidArgument("rms_norm", "input rank 0")
        ELSE IF has_weight /\ ndim(weight[1]) # 1
        THEN InvalidArgument("rms_norm", "weight rank")
        ELSE IF has_weight /\ size(weight[1]) # last_dim(x)
        THEN InvalidArgument("rms_norm", "weight size")
        ELSE
        LET out_type == IF has_weight THEN result_type(<< x, weight[1] >>)
                        ELSE x.dtype
        IN  IF ~issubdtype_floating(out_type)
            THEN InvalidArgument("rms_norm", "unsupported type")
            ELSE IF fused THEN Returned("rms_norm", x.shape, out_type)
            ELSE IF has_weight
                 THEN Elementwise("rms_norm", x.shape, out_type,
                                  [shape |-> weight[1].shape, dtype |-> out_type])
                 ELSE Returned("rms_norm", x.shape, out_type)

\* array layer_norm(x, weight, bias, eps, s); fused is
\* !LayerNorm::use_fallback(s)
layer_norm(x, weight, bias, fused) ==
    LET has_weight == Len(weight) = 1
        has_bias == Len(bias) = 1
    IN  IF ndim(x) = 0
        THEN InvalidArgument("layer_norm", "input rank 0")
        ELSE IF has_weight /\ ndim(weight[1]) # 1
        THEN InvalidArgument("layer_norm", "weight rank")
        ELSE IF has_bias /\ ndim(bias[1]) # 1
        THEN InvalidArgument("layer_norm", "bias rank")
        ELSE
        LET out_type ==
                IF has_weight
                THEN (IF has_bias
                      THEN result_type(<< x, weight[1], bias[1] >>)
                      ELSE result_type(<< x, weight[1] >>))
                ELSE x.dtype
        IN  IF ~issubdtype_floating(out_type)
            THEN InvalidArgument("layer_norm", "unsupported type")
            ELSE IF fused THEN Returned("layer_norm", x.shape, out_type)
            ELSE
            LET xw == IF has_weight
                      THEN Elementwise("layer_norm", x.shape, out_type,
                               [shape |-> weight[1].shape, dtype |-> out_type])
                      ELSE Returned("layer_norm", x.shape, out_type)
            IN  IF xw.status # "ok" THEN xw
                ELSE IF has_bias
                THEN Elementwise("layer_norm", xw.shape, xw.dtype,
                         [shape |-> bias[1].shape, dtype |-> out_type])
                ELSE xw

NormExtents == { 2, 3 }
XShapes == SeqsUpTo(NormExtents, MaxRank)
ParamShapes == { << >>, << 1 >>, << 2 >>, << 3 >>, << 2, 3 >> }
Arrays(shapes) == [shape : shapes, dtype : Dtypes]
Optional(S) == { << >> } \cup { << a >> : a \in S }

InitNorm ==
    /\ RngIdle
    /\ ThreadsIdle
    /\ CallIdle

CallRmsNorm ==
    /\ args.op = "none"
    /\ \E x \in Arrays(XShapes), weight \in Optional(Arrays(ParamShapes)),
          fused \in BOOLEAN :
        /\ args' = [op |-> "rms_norm", x |-> x, weight |-> weight,
                    bias |-> << >>, fused |-> fused]
        /\ result' = rms_norm(x, weight, fused)
        /\ UNCHANGED <<rngVars, thrVars>>

CallLayerNorm ==
    /\ args.op = "none"
    /\ \E x \in Arrays(XShapes), weight \in Optional(Arrays(ParamShapes)),
          bias \in Optional(Arrays(ParamShapes)), fused \in BOOLEAN :
        /\ args' = [op |-> "layer_norm", x |-> x, weight |-> weight,
                    bias |-> bias, fused |-> fused]
        /\ result' = layer_norm(x, weight, bias, fused)
        /\ UNCHANGED <<rngVars, thrVars>>

NextNorm == CallRmsNorm \/ CallLayerNorm \/ Return

SpecNorm == InitNorm /\ [][NextNorm]_vars

NormCall == args.op \in { "rms_norm", "layer_norm" }

\* a supplied weight or bias that is not rank-1 of x's last dimension
BadParam(x, p) ==
    Len(p) = 1 /\ (ndim(p[1]) # 1 \/ p[1].shape[1] # last_dim(x))

\* C6: rms_norm and layer_norm throw invalid-argument for a rank-0 x and for
\* every supplied weight or bias that is not rank-1 or whose length differs
\* from x's last dimension.
C6_NormRejectsBadShapes ==
    (NormCall /\ (ndim(args.x) = 0 \/ BadParam(args.x, args.weight)
                                  \/ BadParam(args.x, args.bias))) =>
        result.status = "invalid_argument"

ShapesValid ==
    /\ ndim(args.x) > 0
    /\ ~BadParam(args.x, args.weight)
    /\ ~BadParam(args.x, args.bias)

\* C7: with valid shapes, the output dtype is the promotion of x's dtype
\* with the dtype of every supplied weight and bias, and the call throws
\* invalid-argument exactly when that promoted type is not floating.
C7_NormOutputDtype ==
    (NormCall /\ ShapesValid) =>
        LET promoted == result_type(<< args.x >> \o args.weight \o args.bias)
        IN  IF issubdtype_floating(promoted)
            THEN result.status = "ok" /\ result.dtype = promoted
            ELSE result.status = "invalid_argument"

(***************************************************************************)
(* mlx/fast.cpp: rope                                                      *)
(***************************************************************************)
\* the dims argument of rope
MaxDims == 4
\* last dimension of the rotated tensor
MaxLastDim == 4

\* issubdtype(t, integer)
issubdtype_integer(t) == t \in { "int32", "int64", "uint32" }

\* rope(std::vector<array> inputs, dims, ...) up to the construction of the
\* fallback, with the freqs bound compared to dims instead of dims / 2.
rope_checks_full_dims(x, offset, freqs, dims) ==
    IF ndim(x) < 3 THEN InvalidArgument("rope", "input rank")
    ELSE IF ~issubdtype_floating(x.dtype)
    THEN InvalidArgument("rope", "input type")
    ELSE IF size(offset) # 1 THEN InvalidArgument("rope", "offset size")
    ELSE IF ~issubdtype_integer(offset.dtype)
    THEN InvalidArgument("rope", "offset type")
    ELSE IF Len(freqs) = 1 /\ (ndim(freqs[1]) # 1 \/ freqs[1].shape[1] # dims)
    THEN InvalidArgument("rope", "freqs shape")
    ELSE Returned("rope", x.shape, x.dtype)

\* rope(std::vector<array> inputs, dims, traditional, base, scale, forward,
\* s) up to the construction of the fallback; inputs = {x, offset} or
\* {x, offset, freqs}
rope_checks(x, offset, freqs, dims) ==
    IF ndim(x) < 3 THEN InvalidArgument("rope", "input rank")
    ELSE IF ~issubdtype_floating(x.dtype)
    THEN InvalidArgument("rope", "input type")
    ELSE IF size(offset) # 1 THEN InvalidArgument("rope", "offset size")
    ELSE IF ~issubdtype_integer(offset.dtype)
    THEN InvalidArgument("rope", "offset type")
    ELSE IF Len(freqs) = 1 /\
            (ndim(freqs[1]) # 1 \/ freqs[1].shape[1] # dims \div 2)
    THEN InvalidArgument("rope", "freqs shape")
    ELSE Returned("rope", x.shape, x.dtype)

\* array rope(x, dims, traditional, std::optional<float> base, scale,
\* const array& offset, const std::optional<array>& freqs, s)
rope(x, dims, has_base, offset, freqs) ==
    IF Len(freqs) = 1
    THEN (IF has_base THEN InvalidArgument("rope", "both base and freqs")
          ELSE rope_checks(x, offset, freqs, dims))
    ELSE IF ~has_base THEN InvalidArgument("rope", "neither base nor freqs")
    ELSE rope_checks(x, offset, freqs, dims)

\* ---- the fallback, on one position of the flattened tensor ----

\* slice(x, {.., start}, {.., stop}, {.., step}) along the last axis
slice(v, start, stop, step) ==
    [i \in 1 .. ((stop - start + step - 1) \div step) |->
        v[start + (i - 1) * step + 1]]

\* concatenate({expand_dims(a, 3), expand_dims(b, 3)}, 3) reshaped to the
\* last axis: row-major order of the (half_dims, 2) block
stack_pairs(a, b) ==
    [i \in 1 .. (2 * Len(a)) |->
        IF i % 2 = 1 THEN a[(i + 1) \div 2] ELSE b[i \div 2]]

\* apply_rope with the forward branch taken whatever the flag.
apply_rope_always_forward(forward, x1, x2, coss, sins) ==
    << [k \in 1 .. Len(x1) |-> x1[k] * coss[k] - x2[k] * sins[k]],
       [k \in 1 .. Len(x1) |-> x1[k] * sins[k] + x2[k] * coss[k]] >>

\* auto apply_rope = [forward, s](x1, x2, coss, sins)
apply_rope(forward, x1, x2, coss, sins) ==
    IF forward
    THEN << [k \in 1 .. Len(x1) |-> x1[k] * coss[k] - x2[k] * sins[k]],
            [k \in 1 .. Len(x1) |-> x1[k] * sins[k] + x2[k] * coss[k]] >>
    ELSE << [k \in 1 .. Len(x1) |-> x2[k] * sins[k] + x1[k] * coss[k]],
            [k \in 1 .. Len(x1) |-> x2[k] * coss[k] - x1[k] * sins[k]] >>

\* The non-traditional branch used for both layouts.
rope_fallback_halves_only(x, dims, traditional, forward, coss, sins) ==
    LET half_dims == dims \div 2
        x1 == slice(x, 0, half_dims, 1)
        x2 == slice(x, half_dims, dims, 1)
        outs == apply_rope(forward, x1, x2, coss, sins)
    IN  outs[1] \o outs[2] \o
        (IF dims < Len(x) THEN slice(x, dims, Len(x), 1) ELSE << >>)

\* auto fallback = [dims, traditional, base, scale, forward, s](inputs):
\* the channels of one position, coss and sins being cos(theta) and
\* sin(theta) of that position
rope_fallback(x, dims, traditional, forward, coss, sins) ==
    LET half_dims == dims \div 2
    IN  IF traditional
        THEN LET x1 == slice(x, 0, dims, 2)
                 x2 == slice(x, 1, dims, 2)
                 outs == apply_rope(forward, x1, x2, coss, sins)
                 out == stack_pairs(outs[1], outs[2])
             IN  IF dims < Len(x)
                 THEN out \o slice(x, dims, Len(x), 1)
                 ELSE out
        ELSE LET x1 == slice(x, 0, half_dims, 1)
                 x2 == slice(x, half_dims, dims, 1)
                 outs == apply_rope(forward, x1, x2, coss, sins)
             IN  outs[1] \o outs[2] \o
                 (IF dims < Len(x) THEN slice(x, dims, Len(x), 1) ELSE << >>)

RopeValues == { -1, 2, 3 }
\* (cos, sin) pairs: quarter turns, and two scaled pairs off the unit circle
RopeAngles == { << 1, 0 >>, << 0, 1 >>, << 0, -1 >>, << 3, 4 >>, << -1, 2 >> }
FreqShapes == SeqsUpTo({ 1, 2 }, 2)
SeqsOfLen(S, n) == { q \in SeqsUpTo(S, n) : Len(q) = n }

InitRope ==
    /\ RngIdle
    /\ ThreadsIdle
    /\ CallIdle

\* rope(x, dims, traditional, base, scale, offset, freqs): argument checks
CallRope ==
    /\ args.op = "none"
    /\ \E xrank \in 2 .. 4, xdtype \in { "float32", "float16", "int32" },
          osize \in 1 .. 2, odtype \in { "int32", "int64", "float32", "bool_" },
          has_base \in BOOLEAN,
          freqs \in Optional([shape : FreqShapes, dtype : { "float32" }]),
          dims \in 0 .. MaxDims :
        LET x == [shape |-> [i \in 1 .. xrank |-> 4], dtype |-> xdtype]
            offset == [shape |-> IF osize = 1 THEN << >> ELSE << osize >>,
                       dtype |-> odtype]
        IN  /\ args' = [op |-> "rope", x |-> x, dims |-> dims,
                        has_base |-> has_base, offset |-> offset,
                        freqs |-> freqs]
            /\ result' = rope(x, dims, has_base, offset, freqs)
            /\ UNCHANGED <<rngVars, thrVars>>

\* The fallback of rope(..., forward = true) on one position.
RopeForward ==
    /\ args.op = "none"
    /\ \E D \in 2 .. MaxLastDim, traditional \in BOOLEAN :
       \E dims \in { d \in 2 .. D : d % 2 = 0 } :
       \E x \in SeqsOfLen(RopeValues, D),
          angles \in SeqsOfLen(RopeAngles, dims \div 2) :
        LET coss == [k \in 1 .. Len(angles) |-> angles[k][1]]
            sins == [k \in 1 .. Len(angles) |-> angles[k][2]]
        IN  /\ args' = [op |-> "rope_fallback", x |-> x, dims |-> dims,
                        traditional |-> traditional,
                        coss |-> coss, sins |-> sins]
            /\ result' = [op |-> "rope_fallback", forward |-> TRUE,
                          val |-> rope_fallback(x, dims, traditional, TRUE,
                                                coss, sins)]
            /\ UNCHANGED <<rngVars, thrVars>>

\* RoPE::vjp: the fallback with forward flipped, applied to the cotangent,
\* here the output of the forward pass
RopeVjp ==
    /\ args.op = "rope_fallback"
    /\ result.forward
    /\ result' = [op |-> "rope_fallback", forward |-> FALSE,
                  val |-> rope_fallback(result.val, args.dims,
                                        args.traditional, ~result.forward,
                                        args.coss, args.sins)]
    /\ UNCHANGED <<args, rngVars, thrVars>>

NextRope == CallRope \/ RopeForward \/ RopeVjp \/ Return

SpecRope == InitRope /\ [][NextRope]_vars

FreqsBad ==
    Len(args.freqs) = 1 /\
    (ndim(args.freqs[1]) # 1 \/ args.freqs[1].shape[1] # args.dims \div 2)

RopeOtherInputsValid ==
    /\ ndim(args.x) >= 3
    /\ args.x.dtype \in Floating
    /\ args.offset.shape = << >>
    /\ args.offset.dtype \in { "int32", "int64" }

PairFirst(k) == IF args.traditional THEN 2 * k - 1 ELSE k
PairSecond(k) == IF args.traditional THEN 2 * k ELSE k + args.dims \div 2

\* C9: the forward pass writes the rotation of pair k back to the indices
\* the pair was read from and leaves channels >= dims alone; the pass with
\* forward = false applied to that result returns, at every index, the
\* original channel times cos^2 + sin^2 of its pair, hence the original
\* tensor whenever cos^2 + sin^2 = 1.
C9_RopeRoundTrip ==
    args.op = "rope_fallback" =>
        LET x == args.x
            c == args.coss
            s == args.sins
            y == result.val
            half == args.dims \div 2
        IN  /\ Len(y) = Len(x)
            /\ \A i \in (args.dims + 1) .. Len(x) : y[i] = x[i]
            /\ result.forward =>
                  \A k \in 1 .. half :
                      /\ y[PairFirst(k)] =
                            x[PairFirst(k)] * c[k] - x[PairSecond(k)] * s[k]
                      /\ y[PairSecond(k)] =
                            x[PairFirst(k)] * s[k] + x[PairSecond(k)] * c[k]
            /\ ~result.forward =>
                  /\ \A k \in 1 .. half :
                      LET n == c[k] * c[k] + s[k] * s[k]
                      IN  /\ y[PairFirst(k)] = n * x[PairFirst(k)]
                          /\ y[PairSecond(k)] = n * x[PairSecond(k)]
                  /\ (\A k \in 1 .. half : c[k] * c[k] + s[k] * s[k] = 1)
                        => y = x

\* C9 witness: a round trip over two pairs, both turned by a quarter, with a
\* tensor of distinct channels, recovered
C9_Witness ==
    /\ args.op = "rope_fallback"
    /\ ~result.forward
    /\ args.dims = 4
    /\ args.sins \in { << 1, -1 >>, << -1, 1 >>, << 1, 1 >> }
    /\ args.coss = << 0, 0 >>
    /\ args.x[1] # args.x[2]
    /\ args.x[2] # args.x[3]
    /\ result.val = args.x

\* C9 witness of the pass-through: dims below the last dimension, round trip
C9_WitnessTrailing ==
    /\ args.op = "rope_fallback"
    /\ ~result.forward
    /\ args.dims < Len(args.x)
    /\ args.sins # << 0 >>

(***************************************************************************)
(* mlx/fast.cpp: scaled_dot_product_attention, argument checks             *)
(***************************************************************************)
\* arrays in mask_arrs
MaxMasks == 2

\* "Check valid mask" with one mask array too many let through.
sdpa_mask_checks_nonempty(mask_mode, mask_arrs) ==
    IF mask_mode # "" /\ mask_mode # "causal" /\ mask_mode # "array"
    THEN "mask_mode"
    ELSE IF mask_mode = "causal" /\ mask_arrs # << >>
    THEN "causal with mask_arrs"
    ELSE
    LET arr_mode == mask_mode = "array" \/ (mask_mode = "" /\ mask_arrs # << >>)
    IN  IF arr_mode /\ Len(mask_arrs) = 0
        THEN "mask count"
        ELSE IF arr_mode /\ ndim(mask_arrs[1]) > 4
        THEN "mask rank"
        ELSE ""

\* "Check valid mask": the failed check, or "" when all pass.  has_arr_mask
\* is set exactly when the array branch is entered with one mask.
sdpa_mask_checks(mask_mode, mask_arrs) ==
    IF mask_mode # "" /\ mask_mode # "causal" /\ mask_mode # "array"
    THEN "mask_mode"
    ELSE IF mask_mode = "causal" /\ mask_arrs # << >>
    THEN "causal with mask_arrs"
    ELSE
    LET arr_mode == mask_mode = "array" \/ (mask_mode = "" /\ mask_arrs # << >>)
    IN  IF arr_mode /\ Len(mask_arrs) # 1
        THEN "mask count"
        ELSE IF arr_mode /\ ndim(mask_arrs[1]) > 4
        THEN "mask rank"
        ELSE ""

\* array scaled_dot_product_attention(queries, keys, values, scale,
\* mask_mode, mask_arrs, s)
scaled_dot_product_attention(queries, keys, values, mask_mode, mask_arrs) ==
    LET op == "scaled_dot_product_attention"
    IN  IF \E tensor \in { queries, keys, values } : ndim(tensor) # 4
        THEN InvalidArgument(op, "input rank")
        ELSE
        LET mask_check == sdpa_mask_checks(mask_mode, mask_arrs)
            has_arr_mask ==
                mask_mode = "array" \/ (mask_mode = "" /\ mask_arrs # << >>)
            n_q_heads == queries.shape[2]
            n_kv_heads == keys.shape[2]
            final_type == result_type(<< queries, keys, values >>)
        IN  IF mask_check # "" THEN InvalidArgument(op, mask_check)
            ELSE IF keys.shape[1] # queries.shape[1]
                    \/ values.shape[1] # queries.shape[1]
            THEN InvalidArgument(op, "batch dimension")
            ELSE IF queries.shape[4] # keys.shape[4]
            THEN InvalidArgument(op, "head_dim")
            ELSE IF keys.shape[2] # values.shape[2]
            THEN InvalidArgument(op, "n_kv_heads")
            ELSE IF n_q_heads % n_kv_heads # 0
            THEN InvalidArgument(op, "n_heads multiple")
            ELSE IF ~issubdtype_floating(final_type)
            THEN InvalidArgument(op, "unsupported type")
            ELSE IF has_arr_mask /\
                    promote_types(mask_arrs[1].dtype, final_type) # final_type
            THEN InvalidArgument(op, "mask type")
            ELSE IF has_arr_mask /\
                    LET mask_shape == << queries.shape[1], queries.shape[2],
                                         queries.shape[3], keys.shape[3] >>
                        b == broadcast_shapes(mask_arrs[1].shape, mask_shape)
                    IN  ~b.ok \/ b.shape # mask_shape
            THEN InvalidArgument(op, "broadcast_to")
            ELSE Returned(op, << queries.shape[1], queries.shape[2],
                                 queries.shape[3], values.shape[4] >>,
                          final_type)

MaskModes == { "", "causal", "array", "Causal", "window" }
MaskRanks == { 0, 2, 4, 5 }
Masks == [shape : { [i \in 1 .. r |-> 1] : r \in MaskRanks },
          dtype : { "bool_", "float32" }]
QShapes == { << 1, 2, 2, 2 >>, << 1, 4, 2, 2 >>, << 1, 3, 2, 2 >>, << 1, 2, 2 >> }
KShapes == { << 1, 2, 3, 2 >>, << 2, 2, 2, 2 >>, << 1, 2, 2, 4 >> }
VShapes == { << 1, 2, 3, 2 >>, << 1, 1, 3, 2 >>, << 1, 2, 3 >> }

InitSdpa ==
    /\ RngIdle
    /\ ThreadsIdle
    /\ CallIdle

CallSdpa ==
    /\ args.op = "none"
    /\ \E qs \in QShapes, ks \in KShapes, vs \in VShapes,
          dtype \in { "float16", "float32", "int32" },
          mask_mode \in MaskModes, mask_arrs \in SeqsUpTo(Masks, MaxMasks) :
        LET queries == [shape |-> qs, dtype |-> dtype]
            keys == [shape |-> ks, dtype |-> dtype]
            values == [shape |-> vs, dtype |-> dtype]
        IN  /\ args' = [op |-> "scaled_dot_product_attention",
                        queries |-> queries, keys |-> keys, values |-> values,
                        mask_mode |-> mask_mode, mask_arrs |-> mask_arrs]
            /\ result' = scaled_dot_product_attention(
                             queries, keys, values, mask_mode, mask_arrs)
            /\ UNCHANGED <<rngVars, thrVars>>

NextSdpa == CallSdpa \/ Return

SpecSdpa == InitSdpa /\ [][NextSdpa]_vars

MaskCheckFailures ==
    { "mask_mode", "causal with mask_arrs", "mask count", "mask rank" }

\* the combinations the claim lists as rejected
MaskArgsRejected ==
    \/ args.mask_mode \notin { "", "causal", "array" }
    \/ args.mask_mode = "causal" /\ args.mask_arrs # << >>
    \/ /\ args.mask_mode = "array"
          \/ (args.mask_mode = "" /\ args.mask_arrs # << >>)
       /\ Len(args.mask_arrs) # 1 \/ ndim(args.mask_arrs[1]) > 4

\* C10: every listed combination of mask_mode and mask_arrs makes the call
\* throw invalid-argument, and with rank-4 inputs one of the mask checks is
\* what fails exactly for the listed combinations: every other combination
\* passes the mask checks.
C10_SdpaMaskChecks ==
    args.op = "scaled_dot_product_attention" =>
        /\ MaskArgsRejected => result.status = "invalid_argument"
        /\ (result.what \in MaskCheckFailures) => MaskArgsRejected
        /\ (\A tensor \in { args.queries, args.keys, args.values } :
                ndim(tensor) = 4)
              => (MaskArgsRejected <=> result.what \in MaskCheckFailures)

\* C10 witness: mask_mode "" with one rank-4 mask, accepted
C10_Witness ==
    /\ args.op = "scaled_dot_product_attention"
    /\ args.mask_mode = ""
    /\ Len(args.mask_arrs) = 1
    /\ ndim(args.mask_arrs[1]) = 4
    /\ result.status = "ok"

\* C10 witness of a rejection: mask_mode "array" with two masks
C10_WitnessTwoMasks ==
    /\ args.op = "scaled_dot_product_attention"
    /\ args.mask_mode = "array"
    /\ Len(args.mask_arrs) = 2
    /\ result.what = "mask count"

(***************************************************************************)
(* mlx/fast.cpp: the fallback of scaled_dot_product_attention.             *)
(* Heads are followed symbolically: a score or output head records which   *)
(* query, key, value and mask head went into it.  The causal mask is the   *)
(* boolean [qL, kL] matrix the fallback builds.                            *)
(***************************************************************************)
\* key/value heads
MaxKvHeads == 3
\* query heads per key/value head
MaxRepeats == 3
\* query and key sequence lengths
MaxSeqLen == 4

\* arange(start, stop)
arange(start, stop) == [i \in 1 .. (stop - start) |-> start + i - 1]

\* greater_equal(expand_dims(q_idx, 1), expand_dims(k_idx, 0))
greater_equal_outer(q_idx, k_idx) ==
    [i \in 1 .. Len(q_idx) |-> [j \in 1 .. Len(k_idx) |-> q_idx[i] >= k_idx[j]]]

\* The causal mask without the clamp of the query offset at 0.
causal_mask_unclamped(qL, kL) ==
    LET q_off == kL - qL
    IN  greater_equal_outer(arange(q_off, q_off + qL), arange(0, kL))

\* if (do_causal) { q_off = (kL - qL) < 0 ? 0 : (kL - qL); ...
\*   mask = greater_equal(q_idx, k_idx); }
causal_mask(qL, kL) ==
    LET q_off == IF (kL - qL) < 0 THEN 0 ELSE (kL - qL)
        q_idx == arange(q_off, q_off + qL)
        k_idx == arange(0, kL)
    IN  greater_equal_outer(q_idx, k_idx)

\* unflatten(x, axis, {n1, n2}) along the head axis: head a * n2 + b of x
\* becomes entry (a, b)
unflatten(x, n1, n2) ==
    [a \in 1 .. n1 |-> [b \in 1 .. n2 |-> x[(a - 1) * n2 + b]]]

\* unflatten with the two new axes exchanged.
unflatten_transposed(x, n1, n2) ==
    [a \in 1 .. n1 |-> [b \in 1 .. n2 |-> x[(b - 1) * n1 + a]]]

\* the unflatten of the query heads in the fallback
unflatten_heads(x, n_kv_heads, n_repeats) == unflatten(x, n_kv_heads, n_repeats)

\* expand_dims(x, 2) / expand_dims(mask, -3): a new head axis of extent 1
expand_dims_heads(x) == [a \in 1 .. Len(x) |-> << x[a] >>]

RECURSIVE flatten_heads(_)
\* flatten(out, 1, 2): row-major
flatten_heads(x) ==
    IF x = << >> THEN << >> ELSE x[1] \o flatten_heads(Tail(x))

\* entry (a, b) of a two-axis block, axes of extent 1 broadcast
Bcast2(x, a, b) ==
    LET row == IF Len(x) = 1 THEN x[1] ELSE x[a]
    IN  IF Len(row) = 1 THEN row[1] ELSE row[b]

\* what masks a score head: nothing, the causal mask, or head h of the
\* array mask
NoMaskLabel == [kind |-> "none", head |-> -1]
CausalLabel == [kind |-> "causal", head |-> -1]
MaskLabel(h) == [kind |-> "array", head |-> h]

\* auto fallback = [scale, final_type, n_q_heads, n_kv_heads, do_causal, s]
\* q, k, v, mask: one symbol per head; mask = << >> when inputs.size() = 3.
\* Returns the heads of `out` and the synthesized causal mask.
sdpa_fallback(q, k, v, mask, n_q_heads, n_kv_heads, do_causal, qL, kL) ==
    LET n_repeats == n_q_heads \div n_kv_heads
        has_mask == mask # << >> \/ do_causal
        cmask == IF do_causal THEN causal_mask(qL, kL) ELSE << >>
    IN  IF n_repeats > 1
        THEN LET q5 == unflatten_heads(q, n_kv_heads, n_repeats)
                 k5 == expand_dims_heads(k)
                 v5 == expand_dims_heads(v)
                 \* the causal mask has rank 2; an array mask reaches the
                 \* fallback with rank 4
                 m5 == IF do_causal \/ mask = << >> THEN << >>
                       ELSE IF Len(mask) = 1 THEN expand_dims_heads(mask)
                       ELSE unflatten_heads(mask, n_kv_heads, n_repeats)
                 out5 == [a \in 1 .. n_kv_heads |-> [b \in 1 .. n_repeats |->
                            [q |-> q5[a][b], k |-> Bcast2(k5, a, b),
                             v |-> Bcast2(v5, a, b),
                             mask |-> IF m5 = << >>
                                      THEN (IF do_causal THEN CausalLabel
                                            ELSE NoMaskLabel)
                                      ELSE MaskLabel(Bcast2(m5, a, b))]]]
             IN  [heads |-> flatten_heads(out5), causal |-> cmask]
        ELSE [heads |-> [h \in 1 .. n_q_heads |->
                            [q |-> q[h], k |-> k[h], v |-> v[h],
                             mask |-> IF do_causal THEN CausalLabel
                                      ELSE IF mask = << >> THEN NoMaskLabel
                                      ELSE IF Len(mask) = 1
                                      THEN MaskLabel(mask[1])
                                      ELSE MaskLabel(mask[h])]],
              causal |-> cmask]

HeadSymbols(n) == [h \in 1 .. n |-> h - 1]

InitSdpaFallback ==
    /\ RngIdle
    /\ ThreadsIdle
    /\ CallIdle

\* The fallback on queries of n_kv_heads * n_repeats heads; mask_kind is
\* "none", "causal", "array" (an array mask broadcast to every query head,
\* one mask head per query head) or "shared" (a mask with one head)
SdpaFallback ==
    /\ args.op = "none"
    /\ \E n_kv_heads \in 1 .. MaxKvHeads, n_repeats \in 1 .. MaxRepeats,
          qL \in 1 .. MaxSeqLen, kL \in 1 .. MaxSeqLen,
          mask_kind \in { "none", "causal", "array", "shared" } :
        LET n_q_heads == n_kv_heads * n_repeats
            mask == IF mask_kind = "array" THEN HeadSymbols(n_q_heads)
                    ELSE IF mask_kind = "shared" THEN << 0 >>
                    ELSE << >>
        IN  /\ args' = [op |-> "sdpa_fallback", n_q_heads |-> n_q_heads,
                        n_kv_heads |-> n_kv_heads, qL |-> qL, kL |-> kL,
                        mask_kind |-> mask_kind]
            /\ result' = sdpa_fallback(HeadSymbols(n_q_heads),
                                       HeadSymbols(n_kv_heads),
                                       HeadSymbols(n_kv_heads), mask,
                                       n_q_heads, n_kv_heads,
                                       mask_kind = "causal", qL, kL)
            /\ UNCHANGED <<rngVars, thrVars>>

NextSdpaFallback == SdpaFallback \/ Return

SpecSdpaFallback == InitSdpaFallback /\ [][NextSdpaFallback]_vars

\* C11: in causal mode query position i attends to key position j exactly
\* when j <= i + max(kL - qL, 0); with qL = kL that is j <= i, and with
\* longer keys the last query row attends to every key.
C11_CausalMask ==
    (args.op = "sdpa_fallback" /\ args.mask_kind = "causal") =>
        LET qL == args.qL
            kL == args.kL
            off == IF kL > qL THEN kL - qL ELSE 0
        IN  /\ Len(result.causal) = qL
            /\ \A i \in 0 .. (qL - 1) :
                  /\ Len(result.causal[i + 1]) = kL
                  /\ \A j \in 0 .. (kL - 1) :
                        result.causal[i + 1][j + 1] <=> (j <= i + off)
            /\ qL = kL =>
                  \A i \in 0 .. (qL - 1), j \in 0 .. (kL - 1) :
                      result.causal[i + 1][j + 1] <=> (j <= i)
            /\ kL > qL =>
                  \A j \in 1 .. kL : result.causal[qL][j]

\* C11 witness: causal mode with more queries than keys, and some position
\* masked
C11_Witness ==
    /\ args.op = "sdpa_fallback"
    /\ args.mask_kind = "causal"
    /\ args.qL > args.kL
    /\ args.kL >= 2
    /\ ~result.causal[1][2]

\* C11 witness for cached decoding: keys longer than queries
C11_WitnessLongKeys ==
    /\ args.op = "sdpa_fallback"
    /\ args.mask_kind = "causal"
    /\ args.kL > args.qL
    /\ args.qL >= 2
    /\ ~result.causal[1][args.kL]

\* C12: with n_q_heads = r * n_kv_heads, r > 1, output head h is query head
\* h scored against and mixed with key/value head floor(h / r), under mask
\* head h of a per-head mask: the output of ungrouped attention on K/V
\* repeated r times consecutively.
C12_GroupedQuery ==
    (args.op = "sdpa_fallback" /\ args.n_q_heads > args.n_kv_heads) =>
        LET r == args.n_q_heads \div args.n_kv_heads
        IN  /\ Len(result.heads) = args.n_q_heads
            /\ \A h \in 0 .. (args.n_q_heads - 1) :
                  LET o == result.heads[h + 1]
                  IN  /\ o.q = h
                      /\ o.k = h \div r
                      /\ o.v = h \div r
                      /\ args.mask_kind = "array" => o.mask = MaskLabel(h)
                      /\ args.mask_kind = "shared" => o.mask = MaskLabel(0)
                      /\ args.mask_kind = "causal" => o.mask = CausalLabel
                      /\ args.mask_kind = "none" => o.mask = NoMaskLabel

\* C12 witness: two key/value heads, three query heads each, per-head mask
C12_Witness ==
    /\ args.op = "sdpa_fallback"
    /\ args.n_kv_heads = 2
    /\ args.n_q_heads = 6
    /\ args.mask_kind = "array"
    /\ result.heads[4].k = 1

(***************************************************************************)
(* mlx/fast.cpp: affine_quantize and affine_dequantize, argument checks    *)
(* and output shapes                                                       *)
(***************************************************************************)
\* the bits argument ranges over -1 .. MaxBitsArg
MaxBitsArg == 9

\* Shape with its last extent replaced: wshape.back() = n
WithLast(shape, n) == [shape EXCEPT ![Len(shape)] = n]

\* the extents before the last one
Leading(shape) == SubSeq(shape, 1, Len(shape) - 1)

\* is_power_of_2(n)
is_power_of_2(n) == n \in { 1, 2, 4, 8, 16, 32 }

\* the three arrays affine_quantize returns, or the exception
Quantized(packed, scales, biases) ==
    [op |-> "affine_quantize", status |-> "ok", what |-> "",
     outputs |-> << packed, scales, biases >>]

\* The packed extent computed from the whole codes per word, 32 / bits.
quantize_output_shapes_codes_per_word(w, group_size, bits) ==
    << WithLast(w.shape, last_dim(w) \div (32 \div bits)),
       WithLast(w.shape, last_dim(w) \div group_size),
       WithLast(w.shape, last_dim(w) \div group_size) >>

\* wq_shape.back() = w.shape(-1) * bits / 32;
\* sshape.back() = w.shape(-1) / group_size;
\* (the same in AffineQuantize::output_shapes)
quantize_output_shapes(w, group_size, bits) ==
    << WithLast(w.shape, (last_dim(w) * bits) \div 32),
       WithLast(w.shape, last_dim(w) \div group_size),
       WithLast(w.shape, last_dim(w) \div group_size) >>

\* affine_quantize with the bits test reduced to its range, 2 .. 8.
affine_quantize_bits_range(w, group_size, bits) ==
    IF group_size # 32 /\ group_size # 64 /\ group_size # 128
    THEN InvalidArgument("affine_quantize", "group size")
    ELSE IF bits < 2 \/ bits > 8
    THEN InvalidArgument("affine_quantize", "bits")
    ELSE IF ndim(w) < 2
    THEN InvalidArgument("affine_quantize", "rank")
    ELSE IF (last_dim(w) % group_size) # 0
    THEN InvalidArgument("affine_quantize", "last dimension")
    ELSE LET shapes == quantize_output_shapes(w, group_size, bits)
         IN  Quantized([shape |-> shapes[1], dtype |-> "uint32"],
                       [shape |-> shapes[2], dtype |-> w.dtype],
                       [shape |-> shapes[3], dtype |-> w.dtype])

\* std::tuple<array, array, array>
\* affine_quantize(const array& w, int group_size, int bits, s)
affine_quantize(w, group_size, bits) ==
    IF group_size # 32 /\ group_size # 64 /\ group_size # 128
    THEN InvalidArgument("affine_quantize", "group size")
    ELSE IF bits < 2 \/ bits > 8 \/ bits = 7
    THEN InvalidArgument("affine_quantize", "bits")
    ELSE IF ndim(w) < 2
    THEN InvalidArgument("affine_quantize", "rank")
    ELSE IF (last_dim(w) % group_size) # 0
    THEN InvalidArgument("affine_quantize", "last dimension")
    ELSE LET shapes == quantize_output_shapes(w, group_size, bits)
         IN  Quantized([shape |-> shapes[1], dtype |-> "uint32"],
                       [shape |-> shapes[2], dtype |-> w.dtype],
                       [shape |-> shapes[3], dtype |-> w.dtype])

\* The fallback of affine_dequantize, as far as shapes go: unpack the codes
\* of each row, reshape to groups, scale, shift, reshape to rows.  reshape
\* and the elementwise operations throw when the extents do not fit.
dequantize_fallback(w, scales, biases, group_size, bits) ==
    LET op == "affine_dequantize"
        word_bits == last_dim(w) * 32
        codes == IF is_power_of_2(bits)
                 THEN last_dim(w) * ((32 + bits - 1) \div bits)
                 ELSE word_bits \div bits
    IN  IF ~is_power_of_2(bits) /\ word_bits % bits # 0
        THEN InvalidArgument(op, "reshape")
        ELSE IF codes % group_size # 0
        THEN InvalidArgument(op, "reshape")
        ELSE
        LET grouped == Leading(w.shape) \o << codes \div group_size, group_size >>
            sc == broadcast_shapes(grouped, scales.shape \o << 1 >>)
            bi == broadcast_shapes(sc.shape, biases.shape \o << 1 >>)
        IN  IF ~sc.ok \/ ~bi.ok
            THEN InvalidArgument(op, "broadcast_shapes")
            ELSE Returned(op,
                     Leading(scales.shape) \o
                         << ShapeProduct(bi.shape)
                                \div ShapeProduct(Leading(scales.shape)) >>,
                     promote_types(scales.dtype, biases.dtype))

\* array affine_dequantize(w, scales, biases, group_size, bits, s);
\* gpu is s.device == Device::gpu
affine_dequantize(w, scales, biases, group_size, bits, gpu) ==
    LET op == "affine_dequantize"
    IN  IF bits <= 0 THEN InvalidArgument(op, "bits")
        ELSE IF group_size <= 0 THEN InvalidArgument(op, "group size")
        ELSE IF ndim(w) < 2 \/ ndim(scales) < 2 \/ ndim(biases) < 2
        THEN InvalidArgument(op, "rank")
        ELSE IF Leading(w.shape) # Leading(scales.shape)
                \/ Leading(w.shape) # Leading(biases.shape)
        THEN InvalidArgument(op, "shape of scales and biases")
        ELSE IF w.dtype # "uint32"
        THEN InvalidArgument(op, "matrix type")
        ELSE
        LET out_size == (last_dim(w) * 32) \div bits
        IN  IF out_size # last_dim(scales) * group_size
            THEN InvalidArgument(op, "quantization parameters")
            ELSE IF gpu
            THEN Returned(op, WithLast(w.shape, out_size), scales.dtype)
            ELSE dequantize_fallback(w, scales, biases, group_size, bits)

QuantGroupSizes == { 0, 16, 32, 48, 64, 128 }
QuantLastDims == { 32, 48, 64, 96, 128, 256 }
QuantLeading == { << >>, << 1 >>, << 2 >>, << 2, 1 >> }
PackedLastDims == { 2, 4, 7, 8 }
ScaleLastDims == { 1, 2, 4 }
DequantLeading == { << >>, << 1 >>, << 2 >> }

InitQuant ==
    /\ RngIdle
    /\ ThreadsIdle
    /\ CallIdle

CallAffineQuantize ==
    /\ args.op = "none"
    /\ \E lead \in QuantLeading, L \in QuantLastDims,
          dtype \in { "float16", "float32" },
          group_size \in QuantGroupSizes, bits \in -1 .. MaxBitsArg :
        LET w == [shape |-> lead \o << L >>, dtype |-> dtype]
        IN  /\ args' = [op |-> "affine_quantize", w |-> w,
                        group_size |-> group_size, bits |-> bits]
            /\ result' = affine_quantize(w, group_size, bits)
            /\ UNCHANGED <<rngVars, thrVars>>

CallAffineDequantize ==
    /\ args.op = "none"
    /\ \E wlead \in DequantLeading, slead \in DequantLeading,
          blead \in DequantLeading,
          W \in PackedLastDims, S \in ScaleLastDims, B \in ScaleLastDims,
          wdtype \in { "uint32", "int32" },
          group_size \in QuantGroupSizes, bits \in -1 .. MaxBitsArg,
          gpu \in BOOLEAN :
        LET w == [shape |-> wlead \o << W >>, dtype |-> wdtype]
            scales == [shape |-> slead \o << S >>, dtype |-> "float16"]
            biases == [shape |-> blead \o << B >>, dtype |-> "float16"]
        IN  /\ args' = [op |-> "affine_dequantize", w |-> w,
                        scales |-> scales, biases |-> biases,
                        group_size |-> group_size, bits |-> bits, gpu |-> gpu]
            /\ result' = affine_dequantize(w, scales, biases, group_size,
                                           bits, gpu)
            /\ UNCHANGED <<rngVars, thrVars>>

\* affine_dequantize applied to the three arrays affine_quantize returned,
\* with the same group_size and bits
DequantizeQuantized ==
    /\ args.op = "affine_quantize"
    /\ result.status = "ok"
    /\ \E gpu \in BOOLEAN :
        /\ args' = [op |-> "dequantize_quantized", w |-> args.w,
                    quantized |-> result.outputs,
                    group_size |-> args.group_size, bits |-> args.bits,
                    gpu |-> gpu]
        /\ result' = affine_dequantize(result.outputs[1], result.outputs[2],
                                       result.outputs[3], args.group_size,
                                       args.bits, gpu)
    /\ UNCHANGED <<rngVars, thrVars>>

NextQuant ==
    CallAffineQuantize \/ CallAffineDequantize \/ DequantizeQuantized \/ Return

SpecQuant == InitQuant /\ [][NextQuant]_vars

\* C13: affine_quantize throws invalid-argument exactly when group_size is
\* not 32, 64 or 128, or bits is not one of 2, 3, 4, 5, 6, 8, or w has rank
\* below 2, or w's last dimension is not a multiple of group_size; every
\* other input is accepted.
C13_QuantizeRejects ==
    args.op = "affine_quantize" =>
        LET bad == \/ args.group_size \notin { 32, 64, 128 }
                   \/ args.bits \notin { 2, 3, 4, 5, 6, 8 }
                   \/ ndim(args.w) < 2
                   \/ last_dim(args.w) % args.group_size # 0
        IN  /\ bad <=> result.status = "invalid_argument"
            /\ ~bad <=> result.status = "ok"

\* C13 witness: bits = 7 with everything else valid, rejected
C13_Witness ==
    /\ args.op = "affine_quantize"
    /\ args.bits = 7
    /\ args.group_size = 64
    /\ args.w.shape = << 2, 128 >>
    /\ result.what = "bits"

\* C14: affine_dequantize throws invalid-argument for bits = 7, for every
\* group size outside 32, 64, 128, and for every mismatch between packed
\* matrix, scales and biases (leading dimensions, packed dtype, or
\* last_dim(packed) * 32 / bits # last_dim(scales) * group_size).
C14_DequantizeRejects ==
    (args.op = "affine_dequantize"
        /\ (\/ args.bits = 7
            \/ args.group_size \notin { 32, 64, 128 }
            \/ Leading(args.w.shape) # Leading(args.scales.shape)
            \/ Leading(args.w.shape) # Leading(args.biases.shape)
            \/ args.w.dtype # "uint32"
            \/ (args.bits > 0 /\
                (last_dim(args.w) * 32) \div args.bits
                    # last_dim(args.scales) * args.group_size)))
        => result.status = "invalid_argument"

\* C15: for every accepted affine_quantize input of last dimension L,
\* last_dim(packed) * 32 / bits = group_size * last_dim(scales) = L in
\* integer arithmetic and biases has the shape of scales; affine_dequantize
\* accepts the three arrays and returns an array of w's shape.
C15_QuantizedShapes ==
    /\ (args.op = "affine_quantize" /\ result.status = "ok") =>
          LET L == last_dim(args.w)
              packed == result.outputs[1]
              scales == result.outputs[2]
              biases == result.outputs[3]
          IN  /\ (last_dim(packed) * 32) \div args.bits = L
              /\ args.group_size * last_dim(scales) = L
              /\ last_dim(biases) = last_dim(scales)
              /\ Leading(packed.shape) = Leading(args.w.shape)
              /\ scales.shape = biases.shape
              /\ Leading(scales.shape) = Leading(args.w.shape)
    /\ args.op = "dequantize_quantized" =>
          /\ result.status = "ok"
          /\ result.shape = args.w.shape

\* C15 witness: a 3-bit quantization of rows of 96 dequantized again on the
\* fallback path
C15_Witness ==
    /\ args.op = "dequantize_quantized"
    /\ args.bits = 3
    /\ args.group_size = 32
    /\ args.w.shape = << 2, 96 >>
    /\ ~args.gpu
    /\ result.status = "ok"

(***************************************************************************)
(* mlx/fast.cpp: packing of quantization codes into uint32 words           *)
(* (pack_and_quantize) and unpacking (fallback of affine_dequantize)       *)
(***************************************************************************)
\* width of the packed words, uint32
WordWidth == 32

\* A uint32 value is held as two 16-bit halves, hi * 2^16 + lo; all
\* arithmetic below is therefore modulo 2^32.  The operations are functions
\* on these values.
Half == Pow2(16)
Uint32 == [hi : 0 .. (Half - 1), lo : 0 .. (Half - 1)]
ShiftAmounts == 0 .. (WordWidth - 1)
ZeroWord == [hi |-> 0, lo |-> 0]

\* array(n, uint32) for 0 <= n < 2^16
ToWord(n) == [hi |-> 0, lo |-> n]

\* left_shift(w, k) on uint32
left_shift[w \in Uint32, k \in ShiftAmounts] ==
    IF k >= 16
    THEN [hi |-> (w.lo * Pow2(k - 16)) % Half, lo |-> 0]
    ELSE [hi |-> ((w.hi * Pow2(k)) % Half) + ((w.lo * Pow2(k)) \div Half),
          lo |-> (w.lo * Pow2(k)) % Half]

\* right_shift(w, k) on uint32
right_shift[w \in Uint32, k \in ShiftAmounts] ==
    IF k >= 16
    THEN [hi |-> 0, lo |-> w.hi \div Pow2(k - 16)]
    ELSE [hi |-> w.hi \div Pow2(k),
          lo |-> (w.lo \div Pow2(k)) + ((w.hi % Pow2(k)) * Pow2(16 - k))]

\* the bitwise and of two halves
AndBits[x \in 0 .. (Half - 1), y \in 0 .. (Half - 1)] ==
    IF x = 0 \/ y = 0 THEN 0
    ELSE ((x % 2) * (y % 2)) + 2 * AndBits[x \div 2, y \div 2]

\* bitwise_and(a, b)
bitwise_and[a \in Uint32, b \in Uint32] ==
    [hi |-> AndBits[a.hi, b.hi], lo |-> AndBits[a.lo, b.lo]]

\* add(a, b) on uint32: the carry out of bit 31 is dropped
add[a \in Uint32, b \in Uint32] ==
    [hi |-> (a.hi + b.hi + ((a.lo + b.lo) \div Half)) % Half,
     lo |-> (a.lo + b.lo) % Half]

\* bit i of a uint32 value
BitOf(w, i) ==
    IF i >= 16 THEN (w.hi \div Pow2(i - 16)) % 2 ELSE (w.lo \div Pow2(i)) % 2

\* The full product of two 16-bit halves, by bytes.
MulHalves[x \in 0 .. (Half - 1), y \in 0 .. (Half - 1)] ==
    LET x0 == x % 256
        x1 == x \div 256
        y0 == y % 256
        y1 == y \div 256
        mid == (x1 * y0) + (x0 * y1)
        low == (x0 * y0) + ((mid % 256) * 256)
    IN  [hi |-> (x1 * y1) + (mid \div 256) + (low \div Half),
         lo |-> low % Half]

\* multiply(a, b) on uint32: the product modulo 2^32
multiply[a \in Uint32, b \in Uint32] ==
    [hi |-> (MulHalves[a.lo, b.lo].hi + MulHalves[a.hi, b.lo].lo
                + MulHalves[a.lo, b.hi].lo) % Half,
     lo |-> MulHalves[a.lo, b.lo].lo]

\* power(base, e) on uint32
power(base, e) ==
    LET P[n \in 0 .. e] ==
            IF n = 0 THEN ToWord(1) ELSE multiply[base, P[n - 1]]
    IN  P[e]

\* sum over an axis of uint32 values
sum(ws) ==
    LET S[n \in 0 .. Len(ws)] ==
            IF n = 0 THEN ZeroWord ELSE add[S[n - 1], ws[n]]
    IN  S[Len(ws)]

\* arange(0, 32, bits): 0, bits, 2 bits, .. below 32
arange_step(stop, step) ==
    [k \in 1 .. ((stop + step - 1) \div step) |-> (k - 1) * step]

\* The packing of pack_and_quantize applied to one row of codes (uint32
\* values); the row holds a whole number of words.
pack(codes, bits) ==
    IF is_power_of_2(bits)
    THEN LET el_per_int == WordWidth \div bits
             starts == arange_step(WordWidth, bits)
             shifts == [k \in 1 .. Len(starts) |-> power(ToWord(2), starts[k])]
         IN  [g \in 1 .. (Len(codes) \div el_per_int) |->
                 sum([k \in 1 .. el_per_int |->
                         multiply[codes[(g - 1) * el_per_int + k], shifts[k]]])]
    ELSE LET one == ToWord(1)
             flat == [f \in 1 .. (Len(codes) * bits) |->
                         bitwise_and[
                             right_shift[codes[((f - 1) \div bits) + 1],
                                         (f - 1) % bits],
                             one]]
         IN  [g \in 1 .. (Len(flat) \div WordWidth) |->
                 sum([i \in 1 .. WordWidth |->
                         left_shift[flat[(g - 1) * WordWidth + i], i - 1]])]

\* Taking the field by a right shift alone.
unpack_part_no_clear(w, start, bits) == right_shift[w, start]

\* right_shift(left_shift(w, 32 - (start + bits)), 32 - bits)
unpack_part(w, start, bits) ==
    right_shift[left_shift[w, WordWidth - (start + bits)], WordWidth - bits]

\* The unpacking of the fallback of affine_dequantize applied to one row of
\* words.
unpack(words, bits) ==
    IF is_power_of_2(bits)
    THEN LET starts == arange_step(WordWidth, bits)
             n == Len(starts)
         IN  [c \in 1 .. (Len(words) * n) |->
                 unpack_part(words[((c - 1) \div n) + 1],
                             starts[((c - 1) % n) + 1], bits)]
    ELSE LET one == ToWord(1)
             flat == [f \in 1 .. (Len(words) * WordWidth) |->
                         bitwise_and[
                             right_shift[words[((f - 1) \div WordWidth) + 1],
                                         (f - 1) % WordWidth],
                             one]]
         IN  [c \in 1 .. (Len(flat) \div bits) |->
                 sum([j \in 1 .. bits |->
                         left_shift[flat[(c - 1) * bits + j], j - 1]])]

\* the bit widths affine_quantize accepts
PackBits == { 2, 3, 4, 5, 6, 8 }

\* rows of 32 codes: a base pattern with one position overridden
PackPatterns == { "zeros", "max", "ramp", "alternate" }
PatternCode(pattern, i, bits) ==
    CASE pattern = "zeros" -> 0
      [] pattern = "max" -> Pow2(bits) - 1
      [] pattern = "ramp" -> (i - 1) % Pow2(bits)
      [] OTHER -> IF i % 2 = 0 THEN Pow2(bits) - 1 ELSE 0
OverrideCodes(bits) == { 0, 1, Pow2(bits - 1), Pow2(bits) - 2, Pow2(bits) - 1 }

InitPack ==
    /\ RngIdle
    /\ ThreadsIdle
    /\ CallIdle

Pack ==
    /\ args.op = "none"
    /\ \E bits \in PackBits, pattern \in PackPatterns, p \in 1 .. WordWidth :
       \E v \in OverrideCodes(bits) :
        LET codes == [i \in 1 .. WordWidth |->
                         IF i = p THEN v ELSE PatternCode(pattern, i, bits)]
        IN  /\ args' = [op |-> "pack", bits |-> bits, codes |-> codes]
            /\ result' = [op |-> "pack",
                          words |-> pack([i \in 1 .. WordWidth |->
                                             ToWord(codes[i])], bits)]
    /\ UNCHANGED <<rngVars, thrVars>>

Unpack ==
    /\ args.op = "pack"
    /\ args' = [op |-> "unpack", bits |-> args.bits, codes |-> args.codes,
                words |-> result.words]
    /\ result' = [op |-> "unpack", codes |-> unpack(result.words, args.bits)]
    /\ UNCHANGED <<rngVars, thrVars>>

NextPack == Pack \/ Unpack \/ Return

SpecPack == InitPack /\ [][NextPack]_vars

\* C16: for bits in 2, 3, 4, 5, 6, 8 and codes in 0 .. 2^bits - 1, unpacking
\* the packed uint32 words gives back exactly the codes, on the power-of-two
\* path and on the bit-by-bit path.
C16_UnpackInvertsPack ==
    args.op = "unpack" =>
        /\ Len(args.words) * WordWidth = Len(args.codes) * args.bits
        /\ result.codes = [i \in 1 .. Len(args.codes) |-> ToWord(args.codes[i])]

\* C16 witness: a 3-bit row (bit-by-bit path) whose code 11 straddles two
\* words, unpacked
C16_Witness ==
    /\ args.op = "unpack"
    /\ args.bits = 3
    /\ args.codes[11] = 6
    /\ args.codes[10] = 7
    /\ Len(args.words) = 3
    /\ BitOf(args.words[2], 0) = 1

\* C16 witness: an 8-bit row (power-of-two path) with the top field of a
\* word set, unpacked
C16_WitnessPowerOfTwo ==
    /\ args.op = "unpack"
    /\ args.bits = 8
    /\ args.codes[4] = 255
    /\ BitOf(args.words[1], WordWidth - 1) = 1
    /\ Len(args.words) = 8

(***************************************************************************)
(* python/src/indexing.cpp: translation of Python index expressions         *)
(***************************************************************************)
\* entries of a tuple index range over sequences of at most MaxEntries
MaxEntries == 4
\* the source arrays have ranks 0 .. MaxIndexRank
MaxIndexRank == 3

\* Python index objects.  A slice holds start, stop, step, each absent
\* (None) or an integer; an array holds its shape.
IdxInt(v) ==
    [kind |-> "int", v |-> v, start |-> << >>, stop |-> << >>,
     step |-> << >>, shape |-> << >>, dtype |-> "none"]
IdxSlice(start, stop, step) ==
    [kind |-> "slice", v |-> 0, start |-> start, stop |-> stop,
     step |-> step, shape |-> << >>, dtype |-> "none"]
IdxNone ==
    [kind |-> "none", v |-> 0, start |-> << >>, stop |-> << >>,
     step |-> << >>, shape |-> << >>, dtype |-> "none"]
IdxEllipsis ==
    [kind |-> "ellipsis", v |-> 0, start |-> << >>, stop |-> << >>,
     step |-> << >>, shape |-> << >>, dtype |-> "none"]
IdxArray(shape, dtype) ==
    [kind |-> "array", v |-> 0, start |-> << >>, stop |-> << >>,
     step |-> << >>, shape |-> shape, dtype |-> dtype]
\* an object of any other type, a string or a float
IdxOther ==
    [kind |-> "other", v |-> 0, start |-> << >>, stop |-> << >>,
     step |-> << >>, shape |-> << >>, dtype |-> "none"]

\* nb::slice(nb::none(), nb::none(), nb::none())
NoneSlice == IdxSlice(<< >>, << >>, << >>)

\* bool is_none_slice(const nb::slice& in_slice)
is_none_slice(in_slice) ==
    in_slice.start = << >> /\ in_slice.stop = << >> /\ in_slice.step = << >>

\* bool is_valid_index_type(const nb::object& obj)
is_valid_index_type(obj) ==
    obj.kind \in { "slice", "int", "array", "none", "ellipsis", "list" }

\* the position an index names on an axis of extent n: negative values
\* count from the end
Position(i, n) == IF i < 0 THEN i + n ELSE i

\* the positions of the entries of the given kinds
Positions(entries, kinds) ==
    { p \in 1 .. Len(entries) : entries[p].kind \in kinds }

\* the number of entries that are not None
CountNonNone(indices) ==
    Cardinality({ p \in 1 .. Len(indices) : indices[p].kind # "none" })

\* The slices of the ellipsis, counted from axis 0.
ellipsis_slices_from_zero(shape, before, after) ==
    [defined |-> Len(shape) - after >= 0,
     slices |-> [m \in 1 .. (Len(shape) - after - before) |->
                    IdxSlice(<< 0 >>, << shape[m] >>, << 1 >>)]]

\* for (int axis = non_none_indices_before;
\*      axis < shape.size() - non_none_indices_after; axis++)
\*   indices.push_back(nb::slice(0, shape[axis], 1));
\* The bound is a size_t: when non_none_indices_after exceeds the rank it
\* wraps and the loop reads shape[axis] beyond the end of shape.
ellipsis_slices(shape, before, after) ==
    [defined |-> Len(shape) - after >= 0,
     slices |-> [m \in 1 .. (Len(shape) - after - before) |->
                    IdxSlice(<< 0 >>, << shape[before + m] >>, << 1 >>)]]

\* mlx_expand_ellipsis(const Shape& shape, const nb::tuple& entries):
\* the pair (non_none_indices, indices), or the exception
mlx_expand_ellipsis(shape, entries) ==
    LET op == "mlx_expand_ellipsis"
        n == Len(entries)
        stops == { p \in 1 .. n : \/ ~is_valid_index_type(entries[p])
                                 \/ entries[p].kind = "ellipsis" }
        i == IF stops = {} THEN n + 1
             ELSE CHOOSE p \in stops : \A q \in stops : p <= q
        has_ellipsis == i <= n
        rejected == { j \in (i + 1) .. n :
                        \/ ~is_valid_index_type(entries[j])
                        \/ entries[j].kind = "ellipsis" }
        indices == SubSeq(entries, 1, i - 1)
        r_indices == SubSeq(entries, i + 1, n)
        non_none_indices_before == CountNonNone(indices)
        non_none_indices_after == CountNonNone(r_indices)
        expanded == ellipsis_slices(shape, non_none_indices_before,
                                    non_none_indices_after)
    IN  IF has_ellipsis /\ ~is_valid_index_type(entries[i])
        THEN InvalidArgument(op, "index type")
        ELSE IF rejected # {}
        THEN LET j == CHOOSE p \in rejected : \A q \in rejected : p >= q
             IN  IF ~is_valid_index_type(entries[j])
                 THEN InvalidArgument(op, "index type")
                 ELSE InvalidArgument(op, "single ellipsis")
        ELSE IF ~has_ellipsis
        THEN [op |-> op, status |-> "ok", what |-> "",
              non_none_indices |-> non_none_indices_before,
              indices |-> indices]
        ELSE IF ~expanded.defined
        THEN [op |-> op, status |-> "undefined", what |-> "shape[axis]"]
        ELSE [op |-> op, status |-> "ok", what |-> "",
              non_none_indices |-> non_none_indices_before
                                      + non_none_indices_after
                                      + Len(expanded.slices),
              indices |-> indices \o expanded.slices \o r_indices]

\* An array is followed through the translation as its sequence of
\* dimensions, each with its extent n and its origin id: the source axis it
\* comes from (0, 1, ..), NewAxis for an axis added for None, IndexAxis for
\* a broadcast dimension of array indices, Placeholder for a singleton that
\* a reshape inserted, Mixed for a dimension two different origins share.
NewAxis == -1
IndexAxis == -2
Placeholder == -3
Mixed == -4

Dim(id, n) == [id |-> id, n |-> n]
SourceDims(shape) == [a \in 1 .. Len(shape) |-> Dim(a - 1, shape[a])]
Extents(dims) == [a \in 1 .. Len(dims) |-> dims[a].n]
Ones(k) == [a \in 1 .. k |-> Dim(Placeholder, 1)]

ReturnedDims(opname, dims) ==
    [op |-> opname, status |-> "ok", what |-> "", dims |-> dims]

\* if the entry is a list, array_from_list
ListToArray(idx) ==
    IF idx.kind = "list" THEN [idx EXCEPT !.kind = "array"] ELSE idx

\* void get_slice_params(starts, ends, strides, in_slice, axis_size)
get_slice_params(in_slice, axis_size) ==
    LET strides == IF in_slice.step = << >> THEN 1 ELSE in_slice.step[1]
    IN  [start |-> IF in_slice.start # << >> THEN in_slice.start[1]
                   ELSE IF strides < 0 THEN axis_size - 1 ELSE 0,
         end |-> IF in_slice.stop # << >> THEN in_slice.stop[1]
                 ELSE IF strides < 0 THEN (-axis_size) - 1 ELSE axis_size,
         stride |-> strides]

\* the number of elements of arange(start, end, stride)
arange_size(start, end, stride) ==
    LET span == IF stride > 0 THEN end - start ELSE start - end
        step == IF stride > 0 THEN stride ELSE -stride
    IN  IF span <= 0 THEN 0 ELSE (span + step - 1) \div step

\* the extent slice(src, starts, ends, strides) gives an axis of extent n:
\* negative bounds count from the end, bounds are clamped to the axis
slice_extent(n, start, end, stride) ==
    LET s == IF start < 0 THEN start + n ELSE start
        e == IF end < 0 THEN end + n ELSE end
        Min(a, b) == IF a < b THEN a ELSE b
        Max(a, b) == IF a > b THEN a ELSE b
    IN  IF stride < 0
        THEN LET st == Min(s, n - 1)
                 ed == Min(Max(e, -1), st)
             IN  arange_size(st, ed, stride)
        ELSE LET st == Max(0, Min(s, n))
                 ed == Max(st, Max(0, Min(e, n)))
             IN  arange_size(st, ed, stride)

\* slice(src, starts, ends, strides): params[a] holds start, end, stride of
\* axis a
slice_dims(src, params) ==
    [a \in 1 .. Len(src) |->
        Dim(src[a].id,
            slice_extent(src[a].n, params[a].start, params[a].end,
                         params[a].stride))]

\* squeeze(src, axes), axes counted from 0
squeeze(src, axes) ==
    LET keep == { a \in 1 .. Len(src) : (a - 1) \notin axes }
        nth(k) == CHOOSE a \in keep :
                      Cardinality({ b \in keep : b < a }) = k - 1
    IN  [k \in 1 .. Cardinality(keep) |-> src[nth(k)]]

\* expand_dims(src, axes): axes are positions in the result, counted from 0
expand_dims(src, axes) ==
    LET m == Len(src) + Cardinality(axes)
    IN  [k \in 1 .. m |->
            IF (k - 1) \in axes THEN Dim(NewAxis, 1)
            ELSE src[k - Cardinality({ x \in axes : x < k - 1 })]]

\* broadcast_arrays of index arrays given by their dimensions
broadcast_dims(arrs) ==
    LET nd == IF arrs = << >> THEN 0
              ELSE CHOOSE m \in { Len(arrs[i]) : i \in 1 .. Len(arrs) } :
                       \A i \in 1 .. Len(arrs) : Len(arrs[i]) <= m
        at(i, d) == IF d > nd - Len(arrs[i])
                    THEN arrs[i][d - (nd - Len(arrs[i]))]
                    ELSE Dim(Placeholder, 1)
        extents(d) == { at(i, d).n : i \in 1 .. Len(arrs) }
        origins(d) == { at(i, d).id : i \in 1 .. Len(arrs) } \ { Placeholder }
        fits == \A d \in 1 .. nd : Cardinality(extents(d) \ { 1 }) <= 1
    IN  [ok |-> fits,
         dims |-> IF ~fits THEN << >>
                  ELSE [d \in 1 .. nd |->
                          Dim(IF origins(d) = {} THEN Placeholder
                              ELSE IF Cardinality(origins(d)) = 1
                              THEN CHOOSE o \in origins(d) : TRUE
                              ELSE Mixed,
                              IF extents(d) \ { 1 } = {} THEN 1
                              ELSE CHOOSE x \in extents(d) \ { 1 } : TRUE)]]

\* the number of slices among the first k entries
SlicesBefore(indices, k) ==
    Cardinality({ p \in 1 .. k : indices[p].kind = "slice" })

\* reshape them so that the int/array indices are last: every index below
\* num_slices is taken for a slice
gather_indices_last(own, max_dims, num_slices) ==
    [i \in 1 .. Len(own) |->
        IF i - 1 < num_slices
        THEN [d \in 1 .. (max_dims + num_slices) |->
                 IF d = i THEN own[i][1] ELSE Dim(Placeholder, 1)]
        ELSE own[i]]

\* reshape them so that the int/array indices are first
gather_indices_first(indices, own, max_dims, num_slices) ==
    [i \in 1 .. Len(own) |->
        IF indices[i].kind = "slice"
        THEN [d \in 1 .. (max_dims + num_slices) |->
                 IF d = max_dims + SlicesBefore(indices, i)
                 THEN own[i][1] ELSE Dim(Placeholder, 1)]
        ELSE own[i] \o Ones(num_slices)]

\* gather(src, indices, axes, slice_sizes) does not take boolean index
\* arrays
gather_boolean_indices(indices) ==
    \E i \in 1 .. Len(indices) : indices[i].dtype = "bool"

\* mx::array mlx_gather_nd(src, indices, gather_first, int& max_dims)
mlx_gather_nd(src, indices, gather_first) ==
    LET op == "mlx_gather_nd"
        k == Len(indices)
        own == [i \in 1 .. k |->
                  IF indices[i].kind = "slice"
                  THEN LET sp == get_slice_params(indices[i], src[i].n)
                           start == IF sp.start < 0 THEN sp.start + src[i].n
                                    ELSE sp.start
                           end == IF sp.end < 0 THEN sp.end + src[i].n
                                  ELSE sp.end
                       IN  << Dim(src[i].id,
                                  arange_size(start, end, sp.stride)) >>
                  ELSE IF indices[i].kind = "int" THEN << >>
                  ELSE [d \in 1 .. Len(indices[i].shape) |->
                           Dim(IndexAxis, indices[i].shape[d])]]
        ranks == { Len(indices[i].shape) :
                     i \in { p \in 1 .. k : indices[p].kind = "array" } }
        max_dims == IF ranks = {} THEN 0
                    ELSE CHOOSE m \in ranks : \A r \in ranks : r <= m
        num_slices == SlicesBefore(indices, k)
        misplaced == ~gather_first /\
                     \E i \in 1 .. k : i - 1 < num_slices /\ Len(own[i]) # 1
        gather_indices ==
            IF gather_first
            THEN gather_indices_first(indices, own, max_dims, num_slices)
            ELSE gather_indices_last(own, max_dims, num_slices)
        b == broadcast_dims(gather_indices)
    IN  IF misplaced THEN InvalidArgument(op, "reshape")
        ELSE IF ~b.ok THEN InvalidArgument(op, "broadcast_shapes")
        ELSE IF gather_boolean_indices(indices)
        THEN InvalidArgument("gather", "boolean indices")
        ELSE [op |-> op, status |-> "ok", what |-> "",
              dims |-> b.dims \o SubSeq(src, k + 1, Len(src)),
              max_dims |-> max_dims]

\* an array or an integer index
is_array_or_int(idx) == idx.kind \in { "array", "int" }

\* The gather result always taken to be in place.
gather_first_never(indices) == FALSE

\* gather_first of mlx_get_item_nd: an array or integer index follows a
\* slice or None that follows an array or integer index
gather_first_of(indices) ==
    \E p, q, r \in 1 .. Len(indices) :
        /\ p < q /\ q < r
        /\ is_array_or_int(indices[p])
        /\ ~is_array_or_int(indices[q])
        /\ is_array_or_int(indices[r])

\* The axes to squeeze counted among all entries.
squeeze_axes_uncorrected(remaining_indices) ==
    { p - 1 : p \in { q \in 1 .. Len(remaining_indices) :
                        remaining_indices[q].kind = "int" } }

\* squeeze_axes.push_back(axis - unsqueeze_axes.size())
squeeze_axes_of(remaining_indices) ==
    { (p - 1) - Cardinality({ q \in 1 .. (p - 1) :
                                remaining_indices[q].kind = "none" }) :
        p \in { q \in 1 .. Len(remaining_indices) :
                  remaining_indices[q].kind = "int" } }

\* unsqueeze_axes.push_back(axis - squeeze_axes.size())
unsqueeze_axes_of(remaining_indices, squeeze_needed) ==
    { (p - 1) - Cardinality({ q \in 1 .. (p - 1) :
                                squeeze_needed /\
                                remaining_indices[q].kind = "int" }) :
        p \in { q \in 1 .. Len(remaining_indices) :
                  remaining_indices[q].kind = "none" } }

\* the entries that are not None, in order
NonNone(indices) == SelectSeq(indices, LAMBDA idx : idx.kind # "none")

\* the start, end and stride of every axis of src for the slice call:
\* an integer st is [st, st + 1), an axis without an entry is whole
slice_handling(src, addressed, have_array) ==
    [a \in 1 .. Len(src) |->
        IF a > Len(addressed)
        THEN [start |-> 0, end |-> src[a].n, stride |-> 1]
        ELSE IF ~have_array /\ addressed[a].kind = "int"
        THEN [start |-> Position(addressed[a].v, src[a].n),
              end |-> Position(addressed[a].v, src[a].n) + 1,
              stride |-> 1]
        ELSE get_slice_params(addressed[a], src[a].n)]

\* Unsqueeze handling of mlx_get_item_nd
unsqueeze_handling(src, remaining_indices, squeeze_needed) ==
    expand_dims(IF squeeze_needed
                THEN squeeze(src, squeeze_axes_of(remaining_indices))
                ELSE src,
                unsqueeze_axes_of(remaining_indices, squeeze_needed))

\* Slice handling and unsqueeze handling of mlx_get_item_nd
get_item_nd_slices(src, remaining_indices, have_array) ==
    ReturnedDims("mlx_get_item_nd",
        unsqueeze_handling(
            slice_dims(src, slice_handling(src, NonNone(remaining_indices),
                                           have_array)),
            remaining_indices,
            ~have_array /\ \E p \in 1 .. Len(remaining_indices) :
                               remaining_indices[p].kind = "int"))

\* a None stays, a slice becomes slice(None, None, None)
kept_entries(indices) ==
    [p \in 1 .. Len(indices) |->
        IF indices[p].kind = "none" THEN indices[p] ELSE NoneSlice]

\* Reassemble the indices for the slicing or reshaping
remaining_after_gather(indices, gather_first, max_dims, first, last) ==
    IF gather_first
    THEN [d \in 1 .. max_dims |-> NoneSlice]
         \o kept_entries(SelectSeq(SubSeq(indices, 1, last - 1),
                LAMBDA idx : idx.kind \in { "none", "slice" }))
         \o SubSeq(indices, last + 1, Len(indices))
    ELSE kept_entries(SubSeq(indices, 1, first - 1))
         \o [d \in 1 .. max_dims |-> NoneSlice]
         \o SubSeq(indices, last + 1, Len(indices))

\* mlx_get_item_nd after the gather: return it, or slice and reshape
get_item_nd_remaining(src, remaining_indices) ==
    IF remaining_indices = << >>
    THEN ReturnedDims("mlx_get_item_nd", src)
    ELSE get_item_nd_slices(src, remaining_indices, TRUE)

\* mlx_get_item_nd from the result g of mlx_gather_nd on
get_item_nd_gathered(indices, g, gather_first, first_array, last_array) ==
    IF g.status # "ok" THEN g
    ELSE get_item_nd_remaining(g.dims,
             remaining_after_gather(indices, gather_first, g.max_dims,
                                    first_array, last_array))

\* the position of the first (which = 1) or last array or integer index
ArrayPosition(indices, last) ==
    CHOOSE p \in Positions(indices, { "array", "int" }) :
        \A q \in Positions(indices, { "array", "int" }) :
            IF last THEN q <= p ELSE p <= q

\* Gather handling of mlx_get_item_nd and what follows it
get_item_nd_indices(src, indices) ==
    IF Positions(indices, { "array" }) = {}
    THEN get_item_nd_slices(src, indices, FALSE)
    ELSE get_item_nd_gathered(indices,
             mlx_gather_nd(src,
                 NonNone(SubSeq(indices, 1, ArrayPosition(indices, TRUE))),
                 gather_first_of(indices)),
             gather_first_of(indices),
             ArrayPosition(indices, FALSE),
             ArrayPosition(indices, TRUE))

\* mlx_get_item_nd from the expanded index ex on
get_item_nd_expanded(src, ex) ==
    IF ex.status # "ok" THEN ex
    ELSE IF ex.non_none_indices > Len(src)
    THEN InvalidArgument("mlx_get_item_nd", "too many indices")
    ELSE get_item_nd_indices(src,
             [p \in 1 .. Len(ex.indices) |-> ListToArray(ex.indices[p])])

\* mx::array mlx_get_item_nd(mx::array src, const nb::tuple& entries)
mlx_get_item_nd(src, entries) ==
    IF Len(entries) = 0 THEN ReturnedDims("mlx_get_item_nd", src)
    ELSE get_item_nd_expanded(src,
             mlx_expand_ellipsis(Extents(src), entries))

\* Reading shape[axis] beyond the end of the shape vector is undefined: the
\* loop ends in a crash or in an allocation failure.
Outcomes(r) ==
    IF r.status = "undefined"
    THEN { [op |-> r.op, status |-> s, what |-> r.what] :
             s \in { "crash", "bad_alloc" } }
    ELSE { r }

IndexShapes == { [a \in 1 .. r |-> a + 1] : r \in 0 .. MaxIndexRank }
IndexEntries ==
    { IdxInt(0), IdxInt(-1), NoneSlice, IdxSlice(<< 1 >>, << >>, << >>),
      IdxNone, IdxEllipsis,
      IdxArray(<< 2 >>, "int32"), IdxArray(<< 3, 1 >>, "int32") }

InitIndex ==
    /\ RngIdle
    /\ ThreadsIdle
    /\ CallIdle

ExpandEllipsis ==
    /\ args.op = "none"
    /\ \E shape \in IndexShapes,
          entries \in SeqsUpTo(IndexEntries \cup { IdxOther }, MaxEntries) :
        /\ args' = [op |-> "mlx_expand_ellipsis", shape |-> shape,
                    entries |-> entries]
        /\ result' \in Outcomes(mlx_expand_ellipsis(shape, entries))
    /\ UNCHANGED <<rngVars, thrVars>>

GetItemNd ==
    /\ args.op = "none"
    /\ \E shape \in IndexShapes, entries \in SeqsUpTo(IndexEntries, MaxEntries) :
        /\ args' = [op |-> "mlx_get_item_nd", src |-> SourceDims(shape),
                    entries |-> entries]
        /\ result' \in Outcomes(mlx_get_item_nd(SourceDims(shape), entries))
    /\ UNCHANGED <<rngVars, thrVars>>

NextIndex == ExpandEllipsis \/ GetItemNd \/ Return

SpecIndex == InitIndex /\ [][NextIndex]_vars

\* the k-th smallest element of a set of numbers
NthOf(S, k) == CHOOSE a \in S : Cardinality({ b \in S : b < a }) = k - 1

\* C17: in a tuple with one ellipsis, valid entries and k entries that are
\* neither None nor the ellipsis, k at most the rank, the ellipsis becomes
\* exactly rank - k full slices at its position, the entries before and
\* after staying in order, and the expanded index has one entry per source
\* axis; a tuple with more than one ellipsis is rejected.
C17_EllipsisExpansion ==
    args.op = "mlx_expand_ellipsis" =>
        LET entries == args.entries
            rank == Len(args.shape)
            ell == Positions(entries, { "ellipsis" })
            k == Cardinality(Positions(entries, { "int", "slice", "array" }))
        IN  /\ Cardinality(ell) > 1 => result.status = "invalid_argument"
            /\ (Cardinality(ell) = 1 /\ k <= rank
                  /\ Positions(entries, { "other" }) = {}) =>
                  LET e == CHOOSE p \in ell : TRUE
                      first == CountNonNone(SubSeq(entries, 1, e - 1))
                      full == [m \in 1 .. (rank - k) |->
                                 IdxSlice(<< 0 >>, << args.shape[first + m] >>,
                                          << 1 >>)]
                  IN  /\ result.status = "ok"
                      /\ result.indices =
                            SubSeq(entries, 1, e - 1) \o full
                                \o SubSeq(entries, e + 1, Len(entries))
                      /\ result.non_none_indices = rank
                      /\ CountNonNone(result.indices) = rank

\* C17 witness: an ellipsis between an integer and a None followed by a
\* slice, on a rank-3 source, expanded to one full slice of axis 1
C17_Witness ==
    /\ args.op = "mlx_expand_ellipsis"
    /\ args.shape = << 2, 3, 4 >>
    /\ args.entries = << IdxInt(0), IdxEllipsis, IdxNone, NoneSlice >>
    /\ result.status = "ok"
    /\ result.indices = << IdxInt(0), IdxSlice(<< 0 >>, << 3 >>, << 1 >>),
                           IdxNone, NoneSlice >>

\* C17 witness: two ellipses, rejected
C17_WitnessTwoEllipses ==
    /\ args.op = "mlx_expand_ellipsis"
    /\ args.entries = << IdxEllipsis, IdxInt(0), IdxEllipsis >>
    /\ result.status = "invalid_argument"
    /\ result.what = "single ellipsis"

\* NumPy: the index with its ellipsis replaced by the full slices that
\* bring the number of addressed axes up to the rank
NumpyExpanded(rank, entries) ==
    LET ell == Positions(entries, { "ellipsis" })
        k == Cardinality(Positions(entries, { "int", "slice", "array" }))
    IN  IF ell = {} THEN entries
        ELSE LET e == CHOOSE p \in ell : TRUE
             IN  SubSeq(entries, 1, e - 1)
                     \o [m \in 1 .. (rank - k) |-> NoneSlice]
                     \o SubSeq(entries, e + 1, Len(entries))

\* NumPy: the length of a slice with a positive step of an axis of extent n
NumpySliceLen(sl, n) ==
    LET Clamp(x) == IF x < 0 THEN 0 ELSE IF x > n THEN n ELSE x
        From(x, default) ==
            IF x = << >> THEN default
            ELSE Clamp(IF x[1] < 0 THEN x[1] + n ELSE x[1])
        start == From(sl.start, 0)
        stop == From(sl.stop, n)
        step == IF sl.step = << >> THEN 1 ELSE sl.step[1]
    IN  IF stop <= start THEN 0 ELSE (stop - start + step - 1) \div step

\* NumPy: the dimensions the slices and None at the positions P of the
\* expanded index E give, in order
NumpyBasicDims(src, E, P) ==
    [k \in 1 .. Cardinality(P) |->
        LET p == NthOf(P, k)
            axis == CountNonNone(SubSeq(E, 1, p - 1)) + 1
        IN  IF E[p].kind = "none" THEN Dim(NewAxis, 1)
            ELSE Dim(src[axis].id, NumpySliceLen(E[p], src[axis].n))]

\* the source axes the expanded index does not address
NumpyTrailing(src, E) == SubSeq(src, CountNonNone(E) + 1, Len(src))

\* the tuple is a valid index of the source: at most one ellipsis and no
\* more entries addressing an axis than the source has axes
ValidTuple(src, entries) ==
    /\ Cardinality(Positions(entries, { "ellipsis" })) <= 1
    /\ Cardinality(Positions(entries, { "int", "slice", "array" })) <= Len(src)

\* C18: a read with a tuple of integers, slices, None and at most one
\* ellipsis returns an array of rank ndim - #integers + #None; the
\* integer-indexed axes are dropped, each None is a length-1 axis where NumPy
\* places it, and the other axes keep their order.
C18_SqueezeUnsqueeze ==
    (args.op = "mlx_get_item_nd"
        /\ Positions(args.entries, { "array" }) = {}
        /\ ValidTuple(args.src, args.entries)) =>
        LET E == NumpyExpanded(Len(args.src), args.entries)
        IN  /\ result.status = "ok"
            /\ Len(result.dims) =
                  Len(args.src)
                      - Cardinality(Positions(args.entries, { "int" }))
                      + Cardinality(Positions(args.entries, { "none" }))
            /\ result.dims =
                  NumpyBasicDims(args.src, E, Positions(E, { "slice", "none" }))
                      \o NumpyTrailing(args.src, E)

\* C18 witness: a[-1, ..., None, 0] on a rank-3 source gives the axes
\* (axis 1, new axis)
C18_Witness ==
    /\ args.op = "mlx_get_item_nd"
    /\ args.src = SourceDims(<< 2, 3, 4 >>)
    /\ args.entries = << IdxInt(-1), IdxEllipsis, IdxNone, IdxInt(0) >>
    /\ result.status = "ok"
    /\ result.dims = << Dim(1, 3), Dim(NewAxis, 1) >>

\* C18 witness: a[None, 0, 1:, None] on a rank-3 source
C18_WitnessNoneFirst ==
    /\ args.op = "mlx_get_item_nd"
    /\ args.src = SourceDims(<< 2, 3, 4 >>)
    /\ args.entries = << IdxNone, IdxInt(0), IdxSlice(<< 1 >>, << >>, << >>),
                         IdxNone >>
    /\ result.status = "ok"
    /\ result.dims = << Dim(NewAxis, 1), Dim(1, 2), Dim(NewAxis, 1), Dim(2, 4) >>

\* NumPy: the broadcast dimensions of the array indices at the positions A
NumpyBroadcastDims(entries, A) ==
    LET nd == CHOOSE m \in { Len(entries[p].shape) : p \in A } :
                  \A p \in A : Len(entries[p].shape) <= m
        ext(p, d) == IF d > nd - Len(entries[p].shape)
                     THEN entries[p].shape[d - (nd - Len(entries[p].shape))]
                     ELSE 1
    IN  [d \in 1 .. nd |->
            Dim(IndexAxis,
                CHOOSE x \in { ext(p, d) : p \in A } :
                    \A p \in A : ext(p, d) <= x)]

\* NumPy's placement of the broadcast dimensions of array and integer
\* indices: in place of the indexed axes when these indices are adjacent,
\* first when something separates them
NumpyAdvancedDims(src, entries) ==
    LET adv == Positions(entries, { "array", "int" })
        basic == Positions(entries, { "slice", "none" })
        lo == NthOf(adv, 1)
        hi == NthOf(adv, Cardinality(adv))
        adjacent == \A q \in lo .. hi : q \in adv
        B == NumpyBroadcastDims(entries, Positions(entries, { "array" }))
    IN  (IF adjacent
         THEN NumpyBasicDims(src, entries, { p \in basic : p < lo })
                  \o B
                  \o NumpyBasicDims(src, entries, { p \in basic : p > hi })
         ELSE B \o NumpyBasicDims(src, entries, basic))
            \o NumpyTrailing(src, entries)

\* C19: a read with a tuple of arrays, integers, slices and None holding at
\* least one array puts the broadcast dimensions of the array and integer
\* indices in place of the indexed axes when these indices are adjacent in
\* the tuple, and first when a slice or None separates them, as NumPy does.
C19_AdvancedPlacement ==
    (args.op = "mlx_get_item_nd"
        /\ Positions(args.entries, { "array" }) # {}
        /\ Positions(args.entries, { "ellipsis" }) = {}
        /\ ValidTuple(args.src, args.entries)) =>
        /\ result.status = "ok"
        /\ result.dims = NumpyAdvancedDims(args.src, args.entries)

\* C19 witness: a[1:, idx, 0] with idx of shape (2,): the indices are
\* adjacent and their dimension stays behind the slice
C19_Witness ==
    /\ args.op = "mlx_get_item_nd"
    /\ args.src = SourceDims(<< 2, 3, 4 >>)
    /\ args.entries = << IdxSlice(<< 1 >>, << >>, << >>),
                         IdxArray(<< 2 >>, "int32"), IdxInt(0) >>
    /\ result.status = "ok"
    /\ result.dims = << Dim(0, 1), Dim(IndexAxis, 2) >>

\* C19 witness: a[idx, None, :, idx2] with idx of shape (2,) and idx2 of
\* shape (3, 1): the indices are separated and their dimensions come first
C19_WitnessHoisted ==
    /\ args.op = "mlx_get_item_nd"
    /\ args.src = SourceDims(<< 2, 3, 4 >>)
    /\ args.entries = << IdxArray(<< 2 >>, "int32"), IdxNone, NoneSlice,
                         IdxArray(<< 3, 1 >>, "int32") >>
    /\ result.status = "ok"
    /\ result.dims = << Dim(IndexAxis, 3), Dim(IndexAxis, 2), Dim(NewAxis, 1),
                        Dim(1, 3) >>

(***************************************************************************)
(* python/src/indexing.cpp: a[idx] = v and a[idx] with an array index      *)
(***************************************************************************)
\* extent of axis 0 of the arrays assigned to
AxisLen == 4
\* number of positions an index array names
MaxIndices == 2

\* An array with contents: its shape and its elements in row-major order.
Array(shape, data, dtype) == [shape |-> shape, data |-> data, dtype |-> dtype]

\* row-major stride of axis d
Stride(shape, d) == ShapeProduct(SubSeq(shape, d + 1, Len(shape)))

\* coordinate on axis d of the k-th element, k counted from 1
Coord(shape, k, d) == ((k - 1) \div Stride(shape, d)) % shape[d]

RECURSIVE Offset(_, _, _)
\* row-major offset of the coordinates from axis d on
Offset(shape, coords, d) ==
    IF d > Len(shape) THEN 0
    ELSE coords[d] * Stride(shape, d) + Offset(shape, coords, d + 1)

\* the number of leading extents that are 1
LeadingSingletons(shape) ==
    CHOOSE s \in 0 .. Len(shape) :
        /\ \A d \in 1 .. s : shape[d] = 1
        /\ s = Len(shape) \/ shape[s + 1] # 1

\* The update taken as it is.
squeeze_leading_singletons_none(in) == in

\* mx::array squeeze_leading_singletons(const mx::array& in)
squeeze_leading_singletons(in) ==
    [in EXCEPT !.shape = SubSeq(in.shape, LeadingSingletons(in.shape) + 1,
                                Len(in.shape))]

\* broadcast_to(a, shape) can be done
broadcastable_to(a_shape, shape) ==
    /\ Len(a_shape) <= Len(shape)
    /\ \A d \in 1 .. Len(a_shape) :
          \/ a_shape[d] = 1
          \/ a_shape[d] = shape[d + Len(shape) - Len(a_shape)]

\* broadcast_to(a, shape), for a that can be broadcast
broadcast_to(a, shape) ==
    LET off == Len(shape) - Len(a.shape)
    IN  [a EXCEPT
            !.shape = shape,
            !.data = [k \in 1 .. ShapeProduct(shape) |->
                         a.data[1 + Offset(a.shape,
                                    [d \in 1 .. Len(a.shape) |->
                                        IF a.shape[d] = 1 THEN 0
                                        ELSE Coord(shape, k, d + off)],
                                    1)]]]

\* reshape(a, shape) to a shape of the same size
reshape(a, shape) == [a EXCEPT !.shape = shape]

\* scatter(src, {indices}, updates, {0}): the slice updates[i, 0, ...]
\* replaces src[indices[i], ...]; the positions are distinct and in range
scatter(src, indices, updates) ==
    LET rest == ShapeProduct(Tail(src.shape))
        hits(k) == { i \in 1 .. Len(indices.data) :
                       Position(indices.data[i], src.shape[1])
                           = (k - 1) \div rest }
    IN  [src EXCEPT
            !.data = [k \in 1 .. Len(src.data) |->
                         IF hits(k) = {} THEN src.data[k]
                         ELSE updates.data[
                                  ((CHOOSE i \in hits(k) : TRUE) - 1) * rest
                                      + ((k - 1) % rest) + 1]]]

\* take(src, indices, 0), the positions being in range
take(src, indices) ==
    LET rest == ShapeProduct(Tail(src.shape))
        shape == indices.shape \o Tail(src.shape)
    IN  Array(shape,
              [k \in 1 .. ShapeProduct(shape) |->
                  src.data[Position(indices.data[((k - 1) \div rest) + 1],
                                    src.shape[1]) * rest
                               + ((k - 1) % rest) + 1]],
              src.dtype)

\* mlx_scatter_args_array(src, indices, update): the triple
\* (indices, updates, axes), or the exception
mlx_scatter_args_array(src, indices, update) ==
    LET op == "mlx_scatter_args_array"
        up == squeeze_leading_singletons(update)
        up_shape == indices.shape \o Tail(src.shape)
    IN  IF ndim(src) = 0 THEN InvalidArgument(op, "0-dimensional")
        ELSE IF ~broadcastable_to(up.shape, up_shape)
        THEN InvalidArgument(op, "broadcast_to")
        ELSE [op |-> op, status |-> "ok", what |-> "",
              indices |-> << indices >>,
              updates |-> reshape(broadcast_to(up, up_shape),
                                  indices.shape \o << 1 >> \o Tail(src.shape)),
              axes |-> << 0 >>]

\* mlx_slice_update(src, obj, v).first for the index objects that are
\* neither slice, tuple nor int
slice_update_routed(src, obj) ==
    ~(ndim(src) = 0 \/ obj.kind \notin { "slice", "tuple", "int" })

\* void mlx_set_item(mx::array& src, const nb::object& obj, v) for an array
\* or list index: the exception, or the array src is overwritten with
mlx_set_item(src, obj, v) ==
    LET op == "mlx_set_item"
        scatter_args == mlx_scatter_args_array(src, obj.arr, v)
    IN  IF slice_update_routed(src, obj)
        THEN [op |-> op, status |-> "slice_update", what |-> "", src |-> src]
        ELSE IF scatter_args.status # "ok"
        THEN [op |-> op, status |-> scatter_args.status,
              what |-> scatter_args.what, src |-> src]
        ELSE [op |-> op, status |-> "ok", what |-> "",
              src |-> scatter(src, scatter_args.indices[1],
                              scatter_args.updates)]

\* mx::array mlx_get_item_array(const mx::array& src, const mx::array& indices)
mlx_get_item_array(src, indices) ==
    LET op == "mlx_get_item_array"
    IN  IF ndim(src) = 0 THEN InvalidArgument(op, "0-dimensional")
        ELSE IF indices.dtype = "bool"
        THEN InvalidArgument(op, "boolean indices")
        ELSE [op |-> op, status |-> "ok", what |-> "",
              arr |-> take(src, indices)]

\* the arrays assigned to: AxisLen elements, or AxisLen rows of two, all
\* elements different
SetSources ==
    { Array(<< AxisLen >>, [k \in 1 .. AxisLen |-> 100 + k], "int32"),
      Array(<< AxisLen, 2 >>, [k \in 1 .. (AxisLen * 2) |-> 100 + k], "int32") }

\* index arrays naming distinct positions of axis 0, some from the end
IndexData ==
    { q \in SeqsUpTo((-AxisLen) .. (AxisLen - 1), MaxIndices) :
        /\ Len(q) >= 1
        /\ \A i, j \in 1 .. Len(q) :
              i # j => Position(q[i], AxisLen) # Position(q[j], AxisLen) }
IndexArrays ==
    { Array(<< Len(q) >>, q, "int32") : q \in IndexData }
        \cup { Array(<< 1, Len(q) >>, q, "int32") : q \in IndexData }

\* the values assigned: every array of the given shape with elements 1, 2
ValuesOfShape(shape) ==
    { Array(shape, q, "int32") :
        q \in [1 .. ShapeProduct(shape) -> { 1, 2 }] }

\* the shapes of the values assigned for a target shape: the target shape,
\* with a leading 1, a scalar, the trailing axes alone, and one that does
\* not fit
UpdateShapes(target) ==
    { target, << 1 >> \o target, << >>, << 1, 1 >>,
      SubSeq(target, 2, Len(target)), << 3 >> }

InitSetItem ==
    /\ RngIdle
    /\ ThreadsIdle
    /\ CallIdle

SetItemArray ==
    /\ args.op = "none"
    /\ \E src \in SetSources, idx \in IndexArrays, kind \in { "array", "list" } :
       \E shape \in UpdateShapes(idx.shape \o Tail(src.shape)) :
       \E v \in ValuesOfShape(shape) :
        /\ args' = [op |-> "mlx_set_item", src |-> src, idx |-> idx,
                    kind |-> kind, v |-> v]
        /\ result' = mlx_set_item(src, [kind |-> kind, arr |-> idx], v)
    /\ UNCHANGED <<rngVars, thrVars>>

\* the read a[idx] that follows the assignment
GetItemArray ==
    /\ args.op = "mlx_set_item"
    /\ result.status = "ok"
    /\ args' = [op |-> "mlx_get_item_array", before |-> args.src,
                src |-> result.src, idx |-> args.idx, v |-> args.v]
    /\ result' = mlx_get_item_array(result.src, args.idx)
    /\ UNCHANGED <<rngVars, thrVars>>

NextSetItem == SetItemArray \/ GetItemArray \/ Return

SpecSetItem == InitSetItem /\ [][NextSetItem]_vars

\* NumPy: the element of v that lands on the k-th element of a target of
\* the given shape, v without its leading length-1 axes being aligned with
\* the last axes of the target
NumpyAssigned(v, shape, k) ==
    LET lead == LeadingSingletons(v.shape)
        vshape == SubSeq(v.shape, lead + 1, Len(v.shape))
        off == Len(shape) - Len(vshape)
    IN  v.data[1 + Offset(vshape,
                   [d \in 1 .. Len(vshape) |->
                       IF vshape[d] = 1 THEN 0 ELSE Coord(shape, k, d + off)],
                   1)]

\* NumPy accepts v for a target of the given shape
NumpyAssignable(v, shape) ==
    LET lead == LeadingSingletons(v.shape)
        vshape == SubSeq(v.shape, lead + 1, Len(v.shape))
    IN  /\ Len(vshape) <= Len(shape)
        /\ \A d \in 1 .. Len(vshape) :
              vshape[d] \in { 1, shape[d + Len(shape) - Len(vshape)] }

\* C20: a[idx] = v with an integer array or list idx of distinct positions
\* writes v at exactly the positions of axis 0 that idx names: every other
\* position keeps its value, and the read a[idx] that follows gives back v.
C20_SetItemArray ==
    /\ args.op = "mlx_set_item" =>
          LET target == args.idx.shape \o Tail(args.src.shape)
              rest == ShapeProduct(Tail(args.src.shape))
              named == { Position(args.idx.data[i], AxisLen) :
                           i \in 1 .. Len(args.idx.data) }
          IN  /\ NumpyAssignable(args.v, target) <=> result.status = "ok"
              /\ result.src.shape = args.src.shape
              /\ \A k \in 1 .. Len(args.src.data) :
                    ((k - 1) \div rest) \notin named =>
                        result.src.data[k] = args.src.data[k]
              /\ result.status = "ok" =>
                    \A i \in 1 .. Len(args.idx.data), r \in 1 .. rest :
                        result.src.data[
                            Position(args.idx.data[i], AxisLen) * rest + r]
                          = NumpyAssigned(args.v, target, (i - 1) * rest + r)
    /\ args.op = "mlx_get_item_array" =>
          LET target == args.idx.shape \o Tail(args.before.shape)
          IN  /\ result.status = "ok"
              /\ result.arr.shape = target
              /\ \A k \in 1 .. ShapeProduct(target) :
                    result.arr.data[k] = NumpyAssigned(args.v, target, k)

\* C20 witness: a[[3, -4]] = v on rows of two with v of shape (1, 2, 2),
\* read back
C20_Witness ==
    /\ args.op = "mlx_get_item_array"
    /\ args.before.shape = << AxisLen, 2 >>
    /\ args.idx.data = << 3, -AxisLen >>
    /\ args.idx.shape = << 2 >>
    /\ args.v = Array(<< 1, 2, 2 >>, << 1, 2, 2, 1 >>, "int32")
    /\ result.status = "ok"
    /\ result.arr.data = << 1, 2, 2, 1 >>
    /\ args.src.data[1] = 2 /\ args.src.data[2] = 1
    /\ args.src.data[3] = args.before.data[3]

(***************************************************************************)
(* python/src/indexing.cpp: the write path, a[idx] = v and a[idx] op= v     *)
(***************************************************************************)
\* tuple indices of the write path have at most MaxWriteEntries entries
MaxWriteEntries == 3

\* the largest rank among the array entries, 0 without arrays
scatter_nd_max_dim(indices) ==
    LET ranks == { Len(indices[p].shape) : p \in Positions(indices, { "array" }) }
    IN  IF ranks = {} THEN 0 ELSE CHOOSE m \in ranks : \A r \in ranks : r <= m

\* int stride = get_slice_int(nb::getattr(slice, "step"), 1)
slice_stride(idx) == IF idx.step = << >> THEN 1 ELSE idx.step[1]

\* arrays_first of mlx_scatter_args_nd: have_non_array takes the value of
\* have_array at every None and slice, and an array that finds both set
\* sets arrays_first; an integer index touches neither flag
scatter_nd_arrays_first(indices) ==
    \E p, q, r \in 1 .. Len(indices) :
        /\ p < q /\ q < r
        /\ indices[p].kind = "array"
        /\ indices[q].kind \in { "none", "slice" }
        /\ indices[r].kind = "array"

\* "Analyse the types of the indices" of mlx_scatter_args_nd
scatter_nd_analysis(indices) ==
    LET n == Len(indices)
        strided == { p \in Positions(indices, { "slice" }) :
                       slice_stride(indices[p]) # 1 }
        resets == Positions(indices, { "array" }) \cup strided
        max_dim == scatter_nd_max_dim(indices)
        num_none == Cardinality(Positions(indices, { "none" }))
        num_slices == Cardinality(Positions(indices, { "slice" }))
        num_simple_slices_post ==
            Cardinality({ p \in Positions(indices, { "slice" }) :
                            \A q \in resets : q < p })
        idx_ndim == max_dim + num_none + num_slices - num_simple_slices_post
    IN  [max_dim |-> max_dim,
         arrays_first |-> scatter_nd_arrays_first(indices),
         num_arrays |-> Cardinality(Positions(indices, { "array" })),
         num_strided_slices |-> Cardinality(strided),
         idx_ndim |-> IF idx_ndim = 0 THEN 1 ELSE idx_ndim]

\* a sequence of k singleton dimensions with the dimensions own from
\* position at on (counted from 0)
PlaceDims(k, at, own) ==
    [d \in 1 .. k |->
        IF d - 1 >= at /\ d - 1 < at + Len(own) THEN own[d - at]
        ELSE Dim(Placeholder, 1)]

\* one pass of the loop "Go over each index type and translate to the
\* needed scatter args" of mlx_scatter_args_nd: p is the state before the
\* entry pyidx
scatter_nd_step(src, an, p, pyidx) ==
    IF pyidx.kind = "slice"
    THEN LET axis == src[p.ax + 1]
             sp == get_slice_params(pyidx, axis.n)
             start == IF sp.start < 0 THEN sp.start + axis.n ELSE sp.start
             end == IF sp.end < 0 THEN sp.end + axis.n ELSE sp.end
             loc == p.slice_num + (IF an.arrays_first THEN an.max_dim ELSE 0)
         IN  IF /\ p.array_num >= an.num_arrays
                /\ p.num_strided_slices <= 0
                /\ sp.stride = 1
             THEN [p EXCEPT
                     !.ax = @ + 1,
                     !.arr_indices = Append(@, Ones(an.idx_ndim)),
                     !.slice_shapes = Append(@, Dim(axis.id, end - start)),
                     !.update_shape = Append(@, end - start)]
             ELSE [p EXCEPT
                     !.ax = @ + 1,
                     !.defined = @ /\ loc < an.idx_ndim,
                     !.arr_indices =
                         Append(@, PlaceDims(an.idx_ndim, loc,
                                    << Dim(axis.id,
                                           arange_size(start, end,
                                                       sp.stride)) >>)),
                     !.slice_num = @ + 1,
                     !.num_strided_slices = @ - 1,
                     !.update_shape = Append(@, 1)]
    ELSE IF pyidx.kind = "int"
    THEN [p EXCEPT !.ax = @ + 1,
                   !.arr_indices = Append(@, << >>),
                   !.update_shape = Append(@, 1)]
    ELSE IF pyidx.kind = "none"
    THEN [p EXCEPT !.slice_num = @ + 1]
    ELSE IF pyidx.kind = "array"
    THEN LET st == (IF an.arrays_first THEN 0 ELSE p.slice_num)
                       + an.max_dim - Len(pyidx.shape)
             last == ~an.arrays_first /\ p.array_num + 1 = an.num_arrays
         IN  [p EXCEPT
                 !.ax = @ + 1,
                 !.defined = @ /\ st + Len(pyidx.shape) <= an.idx_ndim,
                 !.arr_indices =
                     Append(@, PlaceDims(an.idx_ndim, st,
                                [j \in 1 .. Len(pyidx.shape) |->
                                    Dim(IndexAxis, pyidx.shape[j])])),
                 !.array_num = IF an.arrays_first THEN @ ELSE @ + 1,
                 !.slice_num = IF last THEN @ + an.max_dim ELSE @,
                 !.update_shape = Append(@, 1)]
    ELSE [p EXCEPT !.thrown = TRUE]

\* the loop over all entries, from slice_num = 0, array_num = 0, ax = 0
scatter_nd_loop(src, an, indices) ==
    LET after[i \in 0 .. Len(indices)] ==
            IF i = 0
            THEN [slice_num |-> 0, array_num |-> 0, ax |-> 0,
                  num_strided_slices |-> an.num_strided_slices,
                  arr_indices |-> << >>, slice_shapes |-> << >>,
                  update_shape |-> << >>, defined |-> TRUE,
                  thrown |-> FALSE]
            ELSE scatter_nd_step(src, an, after[i - 1], indices[i])
    IN  after[Len(indices)]

\* the dtype of the index array made from an entry: uint32 for an integer
\* (get_int_index) and a slice (array({start}, .., uint32), arange), its own
\* for an array
index_dtype(pyidx) == IF pyidx.kind = "array" THEN pyidx.dtype ELSE "uint32"

\* a call whose behaviour the C++ code leaves undefined
Undefined(opname, what) == [op |-> opname, status |-> "undefined", what |-> what]

\* the part of mlx_scatter_args_nd that follows the loop: broadcast the
\* index arrays, broadcast and reshape the update, collect the axes
scatter_nd_result(src, non_none_indices, indices, up, lp) ==
    LET op == "mlx_scatter_args_nd"
        b == broadcast_dims(lp.arr_indices)
        rest == SubSeq(src, non_none_indices + 1, Len(src))
        up_shape_broadcast == b.dims \o lp.slice_shapes \o rest
    IN  IF lp.thrown THEN InvalidArgument(op, "index type yet")
        ELSE IF ~lp.defined THEN Undefined(op, "idx_shape[loc]")
        ELSE IF ~b.ok THEN InvalidArgument(op, "broadcast_arrays")
        ELSE IF \E d \in 1 .. Len(up_shape_broadcast) :
                   up_shape_broadcast[d].n < 0
        THEN Undefined(op, "negative extent")
        ELSE IF ~broadcastable_to(up.shape, Extents(up_shape_broadcast))
        THEN InvalidArgument(op, "broadcast_to")
        ELSE [op |-> op, status |-> "ok", what |-> "",
              indices |-> [i \in 1 .. Len(lp.arr_indices) |->
                              [shape |-> Extents(b.dims),
                               dtype |-> index_dtype(NonNone(indices)[i])]],
              up_shape_broadcast |-> up_shape_broadcast,
              updates |-> [shape |-> Extents(b.dims) \o lp.update_shape
                                        \o Extents(rest),
                           dtype |-> up.dtype],
              axes |-> [i \in 1 .. Len(lp.arr_indices) |-> i - 1]]

\* mlx_scatter_args_nd from the expanded index ex on
scatter_nd_expanded(src, ex, update) ==
    LET op == "mlx_scatter_args_nd"
        indices == [p \in 1 .. Len(ex.indices) |-> ListToArray(ex.indices[p])]
        up == squeeze_leading_singletons(update)
    IN  IF ex.non_none_indices > Len(src)
        THEN InvalidArgument(op, "too many indices")
        ELSE IF ex.non_none_indices = 0
        THEN IF ~broadcastable_to(up.shape, Extents(src))
             THEN InvalidArgument(op, "broadcast_to")
             ELSE [op |-> op, status |-> "ok", what |-> "",
                   indices |-> << >>, up_shape_broadcast |-> src,
                   updates |-> [shape |-> Extents(src), dtype |-> up.dtype],
                   axes |-> << >>]
        ELSE scatter_nd_result(src, ex.non_none_indices, indices, up,
                 scatter_nd_loop(src, scatter_nd_analysis(indices), indices))

\* mlx_scatter_args_nd(src, entries, update): the triple
\* (indices, updates, axes), or the exception; src is given by its
\* dimensions, update by its shape
mlx_scatter_args_nd(src, entries, update) ==
    LET ex == mlx_expand_ellipsis(Extents(src), entries)
    IN  IF ex.status # "ok" THEN ex
        ELSE scatter_nd_expanded(src, ex, update)

\* an array of zeros
Zeros(shape, dtype) ==
    Array(shape, [k \in 1 .. ShapeProduct(shape) |-> 0], dtype)

\* the uint32 an int of at least -2^16 converts to
to_uint32(v) ==
    IF v >= 0 THEN [hi |-> v \div Half, lo |-> v % Half]
    ELSE [hi |-> Half - 1, lo |-> Half + v]

\* mlx_scatter_args_int(src, idx, update)
mlx_scatter_args_int(src, idx, update) ==
    LET op == "mlx_scatter_args_int"
        up_shape == SubSeq(update.shape, LeadingSingletons(update.shape) + 1,
                           Len(update.shape))
        shape == [src.shape EXCEPT ![1] = 1]
    IN  IF ndim(src) = 0 THEN InvalidArgument(op, "0-dimensional")
        ELSE IF ~broadcastable_to(up_shape, shape)
        THEN InvalidArgument(op, "broadcast_to")
        ELSE [op |-> op, status |-> "ok", what |-> "",
              indices |-> << Array(<< >>,
                                   << to_uint32(Position(idx.v, src.shape[1])) >>,
                                   "uint32") >>,
              updates |-> broadcast_to(reshape(update, up_shape), shape),
              axes |-> << 0 >>]

\* mlx_scatter_args_slice(src, in_slice, update)
mlx_scatter_args_slice(src, in_slice, update) ==
    LET op == "mlx_scatter_args_slice"
        up == squeeze_leading_singletons(update)
        sp == get_slice_params(in_slice, src.shape[1])
        slice_size == sp.end - sp.start
        up_shape_broadcast == << 1, slice_size >> \o Tail(src.shape)
    IN  IF ndim(src) = 0 THEN InvalidArgument(op, "0-dimensional")
        ELSE IF is_none_slice(in_slice)
        THEN IF ~broadcastable_to(up.shape, src.shape)
             THEN InvalidArgument(op, "broadcast_to")
             ELSE [op |-> op, status |-> "ok", what |-> "",
                   indices |-> << >>,
                   updates |-> broadcast_to(up, src.shape),
                   axes |-> << >>]
        ELSE IF sp.stride = 1
        THEN IF slice_size < 0 THEN Undefined(op, "negative extent")
             ELSE IF ~broadcastable_to(up.shape, up_shape_broadcast)
             THEN InvalidArgument(op, "broadcast_to")
             ELSE [op |-> op, status |-> "ok", what |-> "",
                   indices |-> << Array(<< 1 >>, << to_uint32(sp.start) >>,
                                        "uint32") >>,
                   updates |-> broadcast_to(up, up_shape_broadcast),
                   axes |-> << 0 >>]
        ELSE mlx_scatter_args_array(src,
                 Array(<< arange_size(sp.start, sp.end, sp.stride) >>,
                       [k \in 1 .. arange_size(sp.start, sp.end, sp.stride) |->
                           to_uint32(sp.start + (k - 1) * sp.stride)],
                       "uint32"),
                 update)

\* mlx_slice_update declines: the index is not a slice, tuple or int, the
\* source is 0-dimensional, or a tuple holds an array or a list.  obj is
\* [tuple, entries]; an index that is no tuple is the single entry
slice_update_declines(src, obj) ==
    \/ ndim(src) = 0
    \/ ~obj.tuple /\ obj.entries[1].kind \notin { "slice", "int" }
    \/ obj.tuple /\ \E p \in 1 .. Len(obj.entries) :
                        obj.entries[p].kind \in { "array", "list" }

\* "Remove extra leading singletons dimensions from the update"
slice_update_squeeze(upd, src) ==
    LET stop(s) == ~(/\ s < ndim(upd) - 1
                     /\ upd.shape[s + 1] = 1
                     /\ ndim(upd) - s > ndim(src))
        s == CHOOSE k \in 0 .. ndim(upd) :
                 stop(k) /\ \A j \in 0 .. (k - 1) : ~stop(j)
    IN  [upd EXCEPT !.shape = SubSeq(upd.shape, s + 1, Len(upd.shape))]

\* src.shape(dim) for dim >= 0: the extent, with bounds checking
shape_at(src, dim) ==
    IF dim >= ndim(src) THEN [thrown |-> TRUE, n |-> 0]
    ELSE [thrown |-> FALSE, n |-> src.shape[dim + 1]]

\* int st = nb::cast<int>(pyidx); st = (st < 0) ? st + src.shape(i) : st;
\* i is the position of the entry in the expanded tuple, ax the axis it
\* addresses (both from 0)
slice_update_int_start(src, pyidx, i, ax) ==
    IF pyidx.v >= 0 THEN [thrown |-> FALSE, st |-> pyidx.v]
    ELSE IF shape_at(src, i).thrown THEN [thrown |-> TRUE, st |-> 0]
    ELSE [thrown |-> FALSE, st |-> pyidx.v + shape_at(src, i).n]

\* the loop over the expanded tuple of mlx_slice_update, from the last
\* entry to the first: starts, stops, strides of every source axis and the
\* axes to expand and to squeeze in the update
slice_update_loop(src, upd, non_none_indices, indices) ==
    LET L == Len(indices)
        unspecified == ndim(src) - non_none_indices
        ax(p) == CountNonNone(SubSeq(indices, 1, p)) - 1
        upd_ax(p) == ndim(upd) - unspecified - 1
                         - Cardinality({ q \in (p + 1) .. L :
                               indices[q].kind \in { "slice", "none" } })
        addressed == NonNone(indices)
        where(a) == CHOOSE p \in 1 .. L :
                        indices[p].kind # "none" /\ ax(p) = a - 1
        int_start(a) == slice_update_int_start(src, addressed[a],
                                               where(a) - 1, a - 1)
    IN  [thrown |-> \E a \in 1 .. Len(addressed) :
                        addressed[a].kind = "int" /\ int_start(a).thrown,
         params |-> [a \in 1 .. ndim(src) |->
                       IF a > Len(addressed)
                       THEN [start |-> 0, end |-> src.shape[a], stride |-> 1]
                       ELSE IF addressed[a].kind = "int"
                       THEN [start |-> int_start(a).st,
                             end |-> int_start(a).st + 1, stride |-> 1]
                       ELSE get_slice_params(addressed[a], src.shape[a])],
         expand_dims |-> { (p - 1) - L - unspecified :
                             p \in { q \in Positions(indices, { "int" }) :
                                       upd_ax(q) >= 0 } },
         squeeze_dims |-> { (p - 1) - L - unspecified :
                              p \in { q \in Positions(indices, { "none" }) :
                                        upd_ax(q) >= 0 } }]

\* squeeze(expand_dims(up, expand_dims), squeeze_dims) with axes counted
\* from the end: an axis out of range, or a squeezed axis of extent other
\* than 1, is an invalid argument
expand_squeeze(up, expand_axes, squeeze_axes) ==
    LET out_ndim == ndim(up) + Cardinality(expand_axes)
        e_axes == { e + out_ndim : e \in expand_axes }
        x == expand_dims(SourceDims(up.shape), e_axes)
        s_axes == { s + out_ndim : s \in squeeze_axes }
    IN  IF \E e \in e_axes : e < 0
        THEN InvalidArgument("expand_dims", "axis")
        ELSE IF \E s \in s_axes : s < 0 \/ x[s + 1].n # 1
        THEN InvalidArgument("squeeze", "axis")
        ELSE [op |-> "squeeze", status |-> "ok", what |-> "",
              shape |-> Extents(squeeze(x, s_axes)), dtype |-> up.dtype]

\* slice_update(src, up, starts, stops, strides): the update is broadcast
\* to the shape of the slice, negative bounds counting from the end and
\* bounds being clamped to the axis
slice_update(src, up, params) ==
    LET op == "slice_update"
        upd_shape == [a \in 1 .. ndim(src) |->
                        slice_extent(src.shape[a], params[a].start,
                                     params[a].end, params[a].stride)]
    IN  IF ~broadcastable_to(up.shape, upd_shape)
        THEN InvalidArgument(op, "broadcast_to")
        ELSE [op |-> op, status |-> "ok", what |-> "", params |-> params,
              up |-> up.shape,
              out |-> [shape |-> src.shape, dtype |-> src.dtype]]

\* the whole source of extent and stride: starts(src.ndim(), 0),
\* stops = src.shape(), strides(src.ndim(), 1)
whole_params(src) ==
    [a \in 1 .. ndim(src) |->
        [start |-> 0, end |-> src.shape[a], stride |-> 1]]

\* mlx_slice_update for a tuple, from the expanded index ex on
slice_update_expanded(src, ex, upd, up) ==
    LET op == "mlx_slice_update"
        lp == slice_update_loop(src, upd, ex.non_none_indices, ex.indices)
        shaped == expand_squeeze(up, lp.expand_dims, lp.squeeze_dims)
    IN  IF ex.non_none_indices > ndim(src)
        THEN InvalidArgument(op, "too many indices")
        ELSE IF ex.non_none_indices = 0
        THEN IF ~broadcastable_to(up.shape, src.shape)
             THEN InvalidArgument(op, "broadcast_to")
             ELSE [op |-> op, status |-> "ok", what |-> "",
                   params |-> whole_params(src), up |-> up.shape,
                   out |-> [shape |-> src.shape, dtype |-> up.dtype]]
        ELSE IF lp.thrown
        THEN [op |-> op, status |-> "out_of_range", what |-> "shape(i)"]
        ELSE IF shaped.status # "ok" THEN shaped
        ELSE slice_update(src, shaped, lp.params)

\* auto mlx_slice_update(src, obj, v): the pair (success, out), or the
\* exception; status "declined" is the pair (false, src)
mlx_slice_update(src, obj, v) ==
    LET op == "mlx_slice_update"
        up == slice_update_squeeze(v, src)
        entry == obj.entries[1]
        idx == IF entry.v < 0 THEN entry.v + src.shape[1] ELSE entry.v
    IN  IF slice_update_declines(src, obj)
        THEN [op |-> op, status |-> "declined", what |-> ""]
        ELSE IF ~obj.tuple /\ entry.kind = "int"
        THEN slice_update(src, up,
                 [whole_params(src) EXCEPT
                     ![1] = [start |-> idx, end |-> idx + 1, stride |-> 1]])
        ELSE IF ~obj.tuple
        THEN slice_update(src, up,
                 [whole_params(src) EXCEPT
                     ![1] = get_slice_params(entry, src.shape[1])])
        ELSE LET ex == mlx_expand_ellipsis(src.shape, obj.entries)
             IN  IF ex.status # "ok" THEN ex
                 ELSE slice_update_expanded(src, ex, v, up)

\* scatter, scatter_add, scatter_prod, scatter_max and scatter_min do not
\* take boolean index arrays
scatter_boolean_indices(indices) ==
    \E i \in 1 .. Len(indices) : indices[i].dtype = "bool"

\* the descriptor of an array: its shape and dtype
Descriptor(a) == [shape |-> a.shape, dtype |-> a.dtype]

\* the index array of an array or list entry
IndexArray(entry) == Zeros(entry.shape, entry.dtype)

\* mlx_compute_scatter_args(src, obj, v), v being an array
mlx_compute_scatter_args(src, obj, v) ==
    LET op == "mlx_compute_scatter_args"
        entry == obj.entries[1]
    IN  IF obj.tuple
        THEN mlx_scatter_args_nd(SourceDims(src.shape), obj.entries, v)
        ELSE IF entry.kind = "slice"
        THEN mlx_scatter_args_slice(src, entry, v)
        ELSE IF entry.kind = "array"
        THEN mlx_scatter_args_array(src, IndexArray(entry), v)
        ELSE IF entry.kind = "int"
        THEN mlx_scatter_args_int(src, entry, v)
        ELSE IF entry.kind = "none"
        THEN IF ~broadcastable_to(v.shape, src.shape)
             THEN InvalidArgument(op, "broadcast_to")
             ELSE [op |-> op, status |-> "ok", what |-> "",
                   indices |-> << >>, updates |-> broadcast_to(v, src.shape),
                   axes |-> << >>]
        ELSE IF entry.kind = "list"
        THEN mlx_scatter_args_array(src, IndexArray(entry), v)
        ELSE InvalidArgument(op, "given type")

\* mlx_add_item, mlx_subtract_item, mlx_multiply_item, mlx_divide_item,
\* mlx_maximum_item, mlx_minimum_item: a[obj] op= v returns a new array of
\* the shape of src, or raises
mlx_add_item(src, obj, v) ==
    LET op == "mlx_add_item"
        sa == mlx_compute_scatter_args(src, obj, v)
    IN  IF sa.status # "ok" THEN sa
        ELSE IF Len(sa.indices) > 0 /\ scatter_boolean_indices(sa.indices)
        THEN InvalidArgument("scatter_add", "boolean indices")
        ELSE Returned(op, src.shape, src.dtype)

\* A scatter route that overwrites the descriptor with the updates as soon
\* as the scatter arguments are there, before the scatter is built.
set_item_scatter_overwrites_first(src, sa) ==
    LET op == "mlx_set_item"
    IN  IF sa.status # "ok"
        THEN [op |-> op, status |-> sa.status, what |-> sa.what,
              src |-> Descriptor(src), overwrites |-> 0]
        ELSE IF Len(sa.indices) > 0 /\ scatter_boolean_indices(sa.indices)
        THEN [op |-> op, status |-> "invalid_argument",
              what |-> "boolean indices",
              src |-> Descriptor(sa.updates), overwrites |-> 1]
        ELSE [op |-> op, status |-> "ok", what |-> "scatter",
              src |-> Descriptor(src), overwrites |-> 2]

\* mlx_set_item when mlx_slice_update has declined: the scatter arguments
\* sa are built, then the scatter result, then the descriptor is overwritten
set_item_scatter(src, sa) ==
    LET op == "mlx_set_item"
    IN  IF sa.status # "ok"
        THEN [op |-> op, status |-> sa.status, what |-> sa.what,
              src |-> Descriptor(src), overwrites |-> 0]
        ELSE IF Len(sa.indices) > 0 /\ scatter_boolean_indices(sa.indices)
        THEN [op |-> op, status |-> "invalid_argument",
              what |-> "boolean indices",
              src |-> Descriptor(src), overwrites |-> 0]
        ELSE [op |-> op, status |-> "ok", what |-> "scatter",
              src |-> IF Len(sa.indices) > 0 THEN Descriptor(src)
                      ELSE Descriptor(sa.updates),
              overwrites |-> 1]

\* void mlx_set_item(mx::array& src, const nb::object& obj, v) followed on
\* the descriptor of src: what the descriptor is afterwards and how often
\* overwrite_descriptor was called, or the exception
mlx_set_item_descriptor(src, obj, v) ==
    LET op == "mlx_set_item"
        su == mlx_slice_update(src, obj, v)
    IN  IF su.status = "ok"
        THEN [op |-> op, status |-> "ok", what |-> "slice_update",
              src |-> su.out, overwrites |-> 1]
        ELSE IF su.status = "declined"
        THEN set_item_scatter(src, mlx_compute_scatter_args(src, obj, v))
        ELSE [op |-> op, status |-> su.status, what |-> su.what,
              src |-> Descriptor(src), overwrites |-> 0]

\* The outcomes of mlx_set_item: where building the result runs into
\* undefined behaviour the process ends, or the allocation failure
\* propagates out of mlx_set_item like any other exception.
SetItemOutcomes(r) ==
    IF r.status = "undefined"
    THEN { [op |-> r.op, status |-> "crash", what |-> r.what],
           [r EXCEPT !.status = "bad_alloc"] }
    ELSE { r }

\* mx::array mlx_get_item_slice(const mx::array& src, const nb::slice&)
mlx_get_item_slice(src, in_slice) ==
    LET op == "mlx_get_item_slice"
        dims == SourceDims(src.shape)
    IN  IF ndim(src) = 0 THEN InvalidArgument(op, "0-dimensional")
        ELSE IF is_none_slice(in_slice) THEN ReturnedDims(op, dims)
        ELSE ReturnedDims(op,
                 slice_dims(dims,
                     [whole_params(src) EXCEPT
                         ![1] = get_slice_params(in_slice, src.shape[1])]))

\* mx::array mlx_get_item_int(const mx::array& src, const nb::int_& idx)
mlx_get_item_int(src, idx) ==
    LET op == "mlx_get_item_int"
    IN  IF ndim(src) = 0 THEN InvalidArgument(op, "0-dimensional")
        ELSE ReturnedDims(op, Tail(SourceDims(src.shape)))

\* the dimensions of the array r that mlx_get_item_array returns: those
\* of the index array, then the source axes after the first
get_item_array_dims(src, entry, r) ==
    IF r.status # "ok" THEN r
    ELSE ReturnedDims(r.op,
             [d \in 1 .. Len(entry.shape) |-> Dim(IndexAxis, entry.shape[d])]
                 \o Tail(SourceDims(src.shape)))

\* mx::array mlx_get_item(const mx::array& src, const nb::object& obj)
mlx_get_item(src, obj) ==
    LET op == "mlx_get_item"
        entry == obj.entries[1]
    IN  IF obj.tuple
        THEN mlx_get_item_nd(SourceDims(src.shape), obj.entries)
        ELSE IF entry.kind = "slice" THEN mlx_get_item_slice(src, entry)
        ELSE IF entry.kind \in { "array", "list" }
        THEN get_item_array_dims(src, entry,
                 mlx_get_item_array(src, IndexArray(entry)))
        ELSE IF entry.kind = "int" THEN mlx_get_item_int(src, entry)
        ELSE IF entry.kind = "ellipsis"
        THEN ReturnedDims(op, SourceDims(src.shape))
        ELSE IF entry.kind = "none"
        THEN ReturnedDims(op, expand_dims(SourceDims(src.shape), { 0 }))
        ELSE InvalidArgument(op, "given type")

\* the arrays indexed: zeros of rank 0 .. MaxIndexRank
WriteSources == { Zeros(shape, "float32") : shape \in IndexShapes }

\* a list of integers or of booleans as an index
IdxList(shape, dtype) == [IdxArray(shape, dtype) EXCEPT !.kind = "list"]

\* the entries of an index
WriteEntries ==
    { IdxInt(0), IdxInt(-1), NoneSlice, IdxSlice(<< 1 >>, << >>, << >>),
      IdxSlice(<< >>, << >>, << 2 >>), IdxNone, IdxEllipsis,
      IdxArray(<< 2 >>, "int32"), IdxArray(<< 2 >>, "bool"),
      IdxList(<< 2 >>, "bool"), IdxOther }

\* the entries of an index without arrays and lists
BasicEntries ==
    { e \in WriteEntries : e.kind \notin { "array", "list", "other" } }

\* an index: a tuple of entries, or one entry that is no tuple
TupleIndex(entries) == [tuple |-> TRUE, entries |-> entries]
SingleIndex(entry) == [tuple |-> FALSE, entries |-> << entry >>]
IndexObjects(E) ==
    { TupleIndex(entries) : entries \in SeqsUpTo(E, MaxWriteEntries) }
        \cup { SingleIndex(entry) : entry \in E }

\* the values assigned: a scalar, a row, a row with leading singletons
WriteValues ==
    { Zeros(shape, "float32") : shape \in { << >>, << 3 >>, << 1, 1, 3 >> } }

InitWrite ==
    /\ RngIdle
    /\ ThreadsIdle
    /\ CallIdle

\* a[obj]
GetItem ==
    /\ args.op = "none"
    /\ \E src \in WriteSources, obj \in IndexObjects(WriteEntries) :
        /\ args' = [op |-> "mlx_get_item", src |-> src, obj |-> obj]
        /\ result' \in Outcomes(mlx_get_item(src, obj))
    /\ UNCHANGED <<rngVars, thrVars>>

\* a[obj] = v
SetItem ==
    /\ args.op = "none"
    /\ \E src \in WriteSources, obj \in IndexObjects(WriteEntries),
          v \in WriteValues :
        /\ args' = [op |-> "mlx_set_item", src |-> src, obj |-> obj, v |-> v]
        /\ result' \in SetItemOutcomes(mlx_set_item_descriptor(src, obj, v))
    /\ UNCHANGED <<rngVars, thrVars>>

\* a[obj] += v and the other compound assignments
AddItem ==
    /\ args.op = "none"
    /\ \E src \in WriteSources, obj \in IndexObjects(WriteEntries),
          v \in WriteValues :
        /\ args' = [op |-> "mlx_add_item", src |-> src, obj |-> obj, v |-> v]
        /\ result' \in Outcomes(mlx_add_item(src, obj, v))
    /\ UNCHANGED <<rngVars, thrVars>>

\* mlx_slice_update on an index without arrays
SliceUpdate ==
    /\ args.op = "none"
    /\ \E src \in WriteSources, obj \in IndexObjects(BasicEntries),
          v \in WriteValues :
        /\ args' = [op |-> "mlx_slice_update", src |-> src, obj |-> obj,
                    v |-> v]
        /\ result' \in Outcomes(mlx_slice_update(src, obj, v))
    /\ UNCHANGED <<rngVars, thrVars>>

\* mlx_scatter_args_nd on a tuple index
ScatterArgsNd ==
    /\ args.op = "none"
    /\ \E src \in WriteSources,
          entries \in SeqsUpTo(WriteEntries, MaxWriteEntries),
          v \in WriteValues :
        /\ args' = [op |-> "mlx_scatter_args_nd", src |-> src,
                    obj |-> TupleIndex(entries), v |-> v]
        /\ result' \in Outcomes(mlx_scatter_args_nd(SourceDims(src.shape),
                                                    entries, v))
    /\ UNCHANGED <<rngVars, thrVars>>

\* the bounds of the slices of ScatterArgsSlice are omitted or integers of
\* magnitude at most MaxSliceBound
MaxSliceBound == 3
SliceBounds == { << >> } \cup { << k >> : k \in (-MaxSliceBound) .. MaxSliceBound }

\* mlx_scatter_args_slice on a slice index, as a[start:stop] += v reaches it
ScatterArgsSlice ==
    /\ args.op = "none"
    /\ \E src \in WriteSources, start \in SliceBounds, stop \in SliceBounds,
          step \in { << >>, << 1 >>, << 2 >> }, v \in WriteValues :
        /\ args' = [op |-> "mlx_scatter_args_slice", src |-> src,
                    obj |-> SingleIndex(IdxSlice(start, stop, step)), v |-> v]
        /\ result' \in Outcomes(mlx_scatter_args_slice(src,
                                     IdxSlice(start, stop, step), v))
    /\ UNCHANGED <<rngVars, thrVars>>

NextWrite ==
    \/ GetItem \/ SetItem \/ AddItem \/ SliceUpdate \/ ScatterArgsNd
    \/ ScatterArgsSlice \/ Return

SpecWrite == InitWrite /\ [][NextWrite]_vars

\* the index holds a boolean array or a list of booleans, as itself or as
\* an entry of the tuple
HasBooleanArray(obj) ==
    \E p \in 1 .. Len(obj.entries) :
        /\ obj.entries[p].kind \in { "array", "list" }
        /\ obj.entries[p].dtype = "bool"

\* C21: every index that holds a boolean array is rejected with an
\* invalid-argument error, on the read path (a[obj]), the write path
\* (a[obj] = v) and the compound-assign path (a[obj] += v), whether the
\* boolean array is the whole index or an entry of a tuple index.
C21_BooleanRejected ==
    (/\ args.op \in { "mlx_get_item", "mlx_set_item", "mlx_add_item" }
     /\ HasBooleanArray(args.obj))
        => result.status = "invalid_argument"

\* a[idx] = v raised: an exception left mlx_set_item
SetItemRaised ==
    /\ args.op = "mlx_set_item"
    /\ result.status \in { "invalid_argument", "out_of_range", "bad_alloc" }

\* C29: there is no partial success in mlx_set_item: when a[idx] = v raises
\* (too many indices, invalid index type, 0-dimensional source, more than
\* one ellipsis, or anything else), overwrite_descriptor has not been called
\* and the descriptor of a is what it was; when it succeeds,
\* overwrite_descriptor has been called exactly once.
C29_NoPartialSuccess ==
    args.op = "mlx_set_item"
        => /\ SetItemRaised
                 => /\ result.overwrites = 0
                    /\ result.src = Descriptor(args.src)
           /\ result.status = "ok" => result.overwrites = 1
           /\ result.status \in { "ok", "crash" } \/ SetItemRaised

\* C29 witness: a[idx] = v raised for too many indices and left a alone
C29_Witness ==
    /\ args.op = "mlx_set_item"
    /\ result.status = "invalid_argument"
    /\ result.what = "too many indices"
    /\ ndim(args.src) > 0
    /\ result.overwrites = 0
    /\ result.src = Descriptor(args.src)

\* a[idx] = v raised for each of the reasons the claim lists
C29_RaisedInvalidType ==
    SetItemRaised /\ result.what = "given type" /\ result.overwrites = 0
C29_RaisedZeroDim ==
    SetItemRaised /\ ndim(args.src) = 0 /\ result.overwrites = 0
C29_RaisedEllipsis ==
    SetItemRaised /\ result.what = "single ellipsis"
        /\ result.overwrites = 0
C29_SucceededBySliceUpdate ==
    /\ args.op = "mlx_set_item"
    /\ result.status = "ok"
    /\ result.what = "slice_update"
    /\ result.overwrites = 1
C29_SucceededByScatter ==
    /\ args.op = "mlx_set_item"
    /\ result.status = "ok"
    /\ result.what = "scatter"
    /\ result.overwrites = 1

(***************************************************************************)
(* mlx/fast.cpp: scales and biases of the affine_quantize fallback         *)
(***************************************************************************)
\* a group holds QuantGroupLen elements, each an integer of magnitude at
\* most QuantMaxAbs
QuantGroupLen == 2
QuantMaxAbs == 3

\* A float32 value is followed as the exact fraction num / den, den > 0.
Frac(num, den) == [num |-> num, den |-> den]
FracOfInt(n) == Frac(n, 1)
FracSign(x) == IF x.num > 0 THEN 1 ELSE IF x.num < 0 THEN -1 ELSE 0
FracLess(x, y) == x.num * y.den < y.num * x.den
IntSign(n) == IF n > 0 THEN 1 ELSE IF n < 0 THEN -1 ELSE 0
IntAbs(n) == IF n < 0 THEN -n ELSE n

\* array eps(1e-7, float32)
QuantEpsDen == 10000000
quant_eps == Frac(1, QuantEpsDen)

\* divide(a, b) of an integer by a non-zero integer
divide_ints(a, b) == IF b < 0 THEN Frac(-a, -b) ELSE Frac(a, b)

\* round(divide(a, b)) of an integer a by a fraction b # 0: the nearest
\* integer, a tie going to the even one
round_divide(a, b) ==
    LET num == IntAbs(a * b.den)
        den == IntAbs(b.num)
        fl == num \div den
        twice == 2 * (num % den)
        mag == IF twice > den \/ (twice = den /\ fl % 2 = 1) THEN fl + 1
               ELSE fl
    IN  IntSign(a) * FracSign(b) * mag

\* max(packed_w, -1) and min(packed_w, -1) of one group
group_max(g) == CHOOSE x \in { g[i] : i \in 1 .. Len(g) } :
                    \A i \in 1 .. Len(g) : g[i] <= x
group_min(g) == CHOOSE x \in { g[i] : i \in 1 .. Len(g) } :
                    \A i \in 1 .. Len(g) : x <= g[i]

\* The scale negated where the mask holds.
signed_scales_swapped(mask, scales) ==
    IF mask THEN Frac(-scales.num, scales.den) ELSE scales

\* scales = where(mask, scales, negative(scales))
signed_scales(mask, scales) ==
    IF mask THEN scales ELSE Frac(-scales.num, scales.den)

\* the fallback of affine_quantize on one group: mask, edge, the scale
\* before the refinement, q0, the scale after it and the bias
quantize_group(g, bits) ==
    LET w_max == group_max(g)
        w_min == group_min(g)
        n_bins == Pow2(bits) - 1
        mask == IntAbs(w_min) > IntAbs(w_max)
        span == divide_ints(w_max - w_min, n_bins)
        scales == signed_scales(mask,
                      IF FracLess(span, quant_eps) THEN quant_eps ELSE span)
        edge == IF mask THEN w_min ELSE w_max
        q0 == round_divide(edge, scales)
    IN  [mask |-> mask, edge |-> edge, scales |-> scales, q0 |-> q0,
         refined |-> IF q0 # 0 THEN divide_ints(edge, q0) ELSE scales,
         biases |-> IF q0 = 0 THEN 0 ELSE edge]

\* the bit widths affine_quantize takes
QuantBits == { 2, 3, 4, 5, 6, 8 }

QuantGroups ==
    [1 .. QuantGroupLen -> (-QuantMaxAbs) .. QuantMaxAbs]

InitQuantScale ==
    /\ RngIdle
    /\ ThreadsIdle
    /\ CallIdle

\* the fallback of affine_quantize computes scales and biases of a group
QuantizeGroup ==
    /\ args.op = "none"
    /\ \E g \in QuantGroups, bits \in QuantBits :
        /\ args' = [op |-> "quantize_group", g |-> g, bits |-> bits]
        /\ result' = quantize_group(g, bits)
    /\ UNCHANGED <<rngVars, thrVars>>

NextQuantScale == QuantizeGroup \/ Return

SpecQuantScale == InitQuantScale /\ [][NextQuantScale]_vars

\* C22 as stated: for every group whose anchor (whichever of max and min
\* has the larger magnitude) is non-zero, the scale has the sign of the
\* anchor, before and after the refinement scale = anchor / q0.
C22_ScaleSignMatchesAnchor ==
    (args.op = "quantize_group" /\ result.edge # 0)
        => /\ FracSign(result.scales) = IntSign(result.edge)
           /\ FracSign(result.refined) = IntSign(result.edge)

\* C22 amended: for every group whose anchor is non-zero, the scale is
\* positive when the anchor is the group's min (|min| > |max|) and negative
\* when the anchor is the group's max, before and after the refinement; so
\* its sign is opposite to the anchor's unless max = min < 0.
C22_ScaleSignOpposesAnchor ==
    (args.op = "quantize_group" /\ result.edge # 0)
        => /\ FracSign(result.scales) = (IF result.mask THEN 1 ELSE -1)
           /\ FracSign(result.refined) = (IF result.mask THEN 1 ELSE -1)
           /\ (group_max(args.g) = group_min(args.g) /\ result.edge < 0)
                  \/ FracSign(result.refined) = -IntSign(result.edge)

\* C22 witness: a group with anchor min = -3 and max = 1 at 2 bits, whose
\* scale 4/3 is refined to 3/2
C22_Witness ==
    /\ args.op = "quantize_group"
    /\ args.bits = 2
    /\ result.edge = -3
    /\ result.mask
    /\ result.q0 = -2
    /\ result.scales = Frac(4, 3)
    /\ result.refined = Frac(3, 2)

\* C22 witness: a group whose anchor is its max
C22_WitnessMax ==
    /\ args.op = "quantize_group"
    /\ ~result.mask
    /\ result.edge = 3
    /\ group_min(args.g) = -1
    /\ result.q0 # 0
    /\ result.refined # result.scales

\* the positions of integer entries with a negative value in the expanded
\* index E
NegativeInts(E) == { p \in Positions(E, { "int" }) : E[p].v < 0 }

\* the source axis (from 1) the entry at position p of E addresses
AxisOf(E, p) == CountNonNone(SubSeq(E, 1, p))

\* C23: in a slice assignment through mlx_slice_update with a tuple of
\* integers, slices, None and at most one ellipsis, a negative integer k
\* given for source axis ax writes position k + shape[ax] of that axis
\* (start k + shape[ax], stop one more), the position the read path
\* mlx_get_item_nd addresses (slice_handling), also when None entries
\* precede the integer.
C23_NegativeIntPosition ==
    (/\ args.op = "mlx_slice_update"
     /\ args.obj.tuple
     /\ ndim(args.src) > 0
     /\ ValidTuple(args.src.shape, args.obj.entries)
     /\ args.v.shape = << >>)
        => LET E == NumpyExpanded(ndim(args.src), args.obj.entries)
               read == slice_handling(SourceDims(args.src.shape), NonNone(E),
                                      FALSE)
           IN  /\ result.status = "ok"
               /\ \A p \in NegativeInts(E) :
                    LET ax == AxisOf(E, p)
                    IN  /\ result.params[ax].start
                              = E[p].v + args.src.shape[ax]
                        /\ result.params[ax].end
                              = E[p].v + args.src.shape[ax] + 1
                        /\ result.params[ax] = read[ax]

\* the tuple mixes integers, slices and integer arrays and holds an array
MixesArrays(entries) ==
    /\ \A p \in 1 .. Len(entries) :
          /\ entries[p].kind \in { "int", "slice", "array" }
          /\ entries[p].kind = "array" => entries[p].dtype = "int32"
    /\ Positions(entries, { "array" }) # {}

\* the positions (from 1) of the dimensions that array indices give
IndexPositions(dims) == { d \in 1 .. Len(dims) : dims[d].id = IndexAxis }

\* C24: for every tuple index mixing integers, slices and integer arrays
\* that both paths accept, the shape to which mlx_scatter_args_nd
\* broadcasts the update of a[idx] = v equals the shape of the read result
\* a[idx] of mlx_get_item_nd, the dimensions of the array indices being at
\* the same positions in both.
C24_UpdateShapeIsReadShape ==
    (/\ args.op = "mlx_scatter_args_nd"
     /\ MixesArrays(args.obj.entries)
     /\ result.status = "ok")
        => LET read == mlx_get_item_nd(SourceDims(args.src.shape),
                                       args.obj.entries)
           IN  read.status = "ok"
                  => /\ Extents(result.up_shape_broadcast) = Extents(read.dims)
                     /\ IndexPositions(result.up_shape_broadcast)
                            = IndexPositions(read.dims)

\* the tuple has entries of valid types, at most one ellipsis, and more
\* entries that are neither None nor the ellipsis than the source has axes
TooManyIndices(src, entries) ==
    /\ \A p \in 1 .. Len(entries) : is_valid_index_type(entries[p])
    /\ Cardinality(Positions(entries, { "ellipsis" })) <= 1
    /\ Cardinality(Positions(entries, { "int", "slice", "array", "list" }))
           > ndim(src)

\* C25: a tuple index with more non-None, non-ellipsis entries than the
\* source rank is always rejected with the invalid-argument error "Too many
\* indices for array", on the read path and the write paths, also when an
\* ellipsis is followed by more entries than the source has axes.
C25_TooManyRejected ==
    (/\ args.op \in { "mlx_get_item", "mlx_set_item", "mlx_add_item",
                      "mlx_scatter_args_nd" }
     /\ args.obj.tuple
     /\ TooManyIndices(args.src, args.obj.entries))
        => /\ result.status = "invalid_argument"
           /\ result.what = "too many indices"

\* C26: for a compound assignment with a single slice index of step 1 on
\* an axis of length n, mlx_scatter_args_slice yields a start index in
\* [0, n] and an update whose extent along the sliced axis is the number of
\* positions NumPy's slice start:stop selects, for every start and stop,
\* negative values and omitted bounds included.
C26_SliceStartAndExtent ==
    (/\ args.op = "mlx_scatter_args_slice"
     /\ ndim(args.src) > 0
     /\ slice_stride(args.obj.entries[1]) = 1
     /\ ~is_none_slice(args.obj.entries[1])
     /\ args.v.shape = << >>)
        => /\ result.status = "ok"
           /\ result.indices[1].data[1].hi = 0
           /\ result.indices[1].data[1].lo <= args.src.shape[1]
           /\ result.updates.shape[2]
                  = NumpySliceLen(args.obj.entries[1], args.src.shape[1])

(***************************************************************************)
(* mlx/fast.cpp: the fallbacks of RMSNormVJP and LayerNormVJP               *)
(***************************************************************************)
\* x has rank 1 .. MaxVjpRank
MaxVjpRank == 3

\* An intermediate array of a fallback: its shape and what it holds, or
\* the failure of a broadcast or a reduction.
Value(shape, holds) == [ok |-> TRUE, shape |-> shape, holds |-> holds]
Failed == [ok |-> FALSE, shape |-> << >>, holds |-> "none"]

\* multiply, add, subtract: the operands are broadcast
binary(a, b) ==
    IF ~a.ok \/ ~b.ok \/ ~broadcast_shapes(a.shape, b.shape).ok THEN Failed
    ELSE Value(broadcast_shapes(a.shape, b.shape).shape, "expr")

\* square, rsqrt, power with a scalar: elementwise
unary(a) == IF a.ok THEN Value(a.shape, "expr") ELSE Failed

\* mean(a, -1, keepdims = true) and sum(a, -1, keepdims = true)
reduce_last(a) ==
    IF ~a.ok \/ a.shape = << >> THEN Failed
    ELSE Value([a.shape EXCEPT ![Len(a.shape)] = 1], "expr")

\* sum(a, axes, keepdims = false) over the axes 0 .. num_axes - 1; holds
\* names the sum
sum_leading(a, num_axes, holds) ==
    IF ~a.ok \/ num_axes > Len(a.shape) THEN Failed
    ELSE Value(SubSeq(a.shape, num_axes + 1, Len(a.shape)), holds)

\* array(eps, x.dtype()), number_of_elements(x, {-1}, true, ..): scalars
scalar_value == Value(<< >>, "expr")

\* zeros_like(a) in the fallbacks of the norm VJPs
vjp_zeros_like(a) == Value(a.shape, "zeros")

\* the fallback of RMSNormVJP on inputs x, w, g: the gradients of x and w
RMSNormVJP_fallback(x, w, g) ==
    LET n == unary(binary(reduce_last(unary(x)), scalar_value))
        n3 == unary(n)
        gw == binary(g, w)
        t == binary(binary(x, reduce_last(binary(gw, x))), n3)
        axes == Len(g.shape) - 1
    IN  << binary(binary(gw, n), t),
           IF Len(w.shape) = 0 THEN vjp_zeros_like(w)
           ELSE sum_leading(binary(g, binary(x, n)), axes, "expr") >>

\* "df/db" of the fallback of LayerNormVJP
bias_gradient(w, b, g, axes) ==
    IF Len(b.shape) = 0 THEN vjp_zeros_like(w)
    ELSE sum_leading(g, axes, "sum(g)")

\* the fallback of LayerNormVJP on inputs x, w, b, g: the gradients of
\* x, w and b
LayerNormVJP_fallback(x, w, b, g) ==
    LET norm == scalar_value
        mu == binary(reduce_last(x), norm)
        mu2 == binary(reduce_last(unary(x)), norm)
        var == binary(mu2, unary(mu))
        n == unary(binary(var, scalar_value))
        n3 == unary(n)
        x_c == binary(x, mu)
        wg == binary(w, g)
        sumwg == binary(reduce_last(wg), norm)
        sumwgxc == binary(reduce_last(binary(wg, x_c)), norm)
        t1 == binary(binary(x_c, sumwgxc), n3)
        t2 == binary(binary(wg, sumwg), n)
        axes == Len(g.shape) - 1
    IN  << binary(t2, t1),
           IF Len(w.shape) = 0 THEN vjp_zeros_like(w)
           ELSE sum_leading(binary(g, binary(x_c, n)), axes, "expr"),
           bias_gradient(w, b, g, axes) >>

\* the shapes of x: ranks 1 .. MaxVjpRank, extents 1 .. 3
VjpShapes == SeqsUpTo({ 1, 2, 3 }, MaxVjpRank) \ { << >> }

\* weight and bias as the VJP node holds them: rank-1 of x's last
\* dimension, or the scalar placeholder array(1, out_type), array(0, out_type)
VjpParams(x_shape) == { << >>, << x_shape[Len(x_shape)] >> }

InitNormVjp ==
    /\ RngIdle
    /\ ThreadsIdle
    /\ CallIdle

\* RMSNormVJP evaluated with its fallback; the cotangent has the shape of x
EvalRMSNormVJP ==
    /\ args.op = "none"
    /\ \E x \in VjpShapes :
       \E w \in VjpParams(x) :
        /\ args' = [op |-> "RMSNormVJP", primals |-> << x, w >>]
        /\ result' = RMSNormVJP_fallback(Value(x, "x"), Value(w, "w"),
                                         Value(x, "g"))
    /\ UNCHANGED <<rngVars, thrVars>>

\* LayerNormVJP evaluated with its fallback
EvalLayerNormVJP ==
    /\ args.op = "none"
    /\ \E x \in VjpShapes :
       \E w \in VjpParams(x), b \in VjpParams(x) :
        /\ args' = [op |-> "LayerNormVJP", primals |-> << x, w, b >>]
        /\ result' = LayerNormVJP_fallback(Value(x, "x"), Value(w, "w"),
                                           Value(b, "b"), Value(x, "g"))
    /\ UNCHANGED <<rngVars, thrVars>>

NextNormVjp == EvalRMSNormVJP \/ EvalLayerNormVJP \/ Return

SpecNormVjp == InitNormVjp /\ [][NextNormVjp]_vars

\* C27: every gradient the fallback of RMSNormVJP and LayerNormVJP produces
\* has the shape of the primal it belongs to (the shape declared for that
\* output of the VJP node), in all four cases of weight and bias being
\* rank-1 or the scalar placeholder; the bias gradient is the sum of g over
\* all but the last axis when bias is rank-1 and a scalar zero when bias is
\* the placeholder.
C27_GradientShapes ==
    args.op \in { "RMSNormVJP", "LayerNormVJP" }
        => /\ \A i \in 1 .. Len(args.primals) :
                 result[i].ok /\ result[i].shape = args.primals[i]
           /\ args.op = "LayerNormVJP"
                 => IF args.primals[3] = << >>
                    THEN result[3] = Value(<< >>, "zeros")
                    ELSE result[3] = Value(<< args.primals[1][
                                                  Len(args.primals[1])] >>,
                                           "sum(g)")

(***************************************************************************)
(* mlx/random.cpp: bits and bernoulli drawing from the default KeySequence *)
(***************************************************************************)

\* a key array: shape, dtype and, for a well-formed key, its two words
KeyArray(shape, dtype, words) ==
    [shape |-> shape, dtype |-> dtype, words |-> words]

\* the node a successful draw returns: its only input is the key
Drawn(opname, shape, dtype, k) ==
    [op |-> opname, status |-> "ok", what |-> "",
     shape |-> shape, dtype |-> dtype, key |-> k.words]

\* the checks of bits on the key k it uses and on the width, and the node
random_bits_checked(shape, width, k) ==
    IF k.dtype # "uint32"
    THEN InvalidArgument("bits", "key type")
    ELSE IF k.shape # << 2 >>
    THEN InvalidArgument("bits", "key shape")
    ELSE IF width = 4 THEN Drawn("bits", shape, "uint32", k)
    ELSE IF width = 2 THEN Drawn("bits", shape, "uint16", k)
    ELSE IF width = 1 THEN Drawn("bits", shape, "uint8", k)
    ELSE InvalidArgument("bits", "bit width")

\* bits once its first statement has taken the key: key_opt is << >>
\* (nullopt) or << k >>, nx is what KeySequence::default_().next() does to
\* the stored key and returns
random_bits_keyed(shape, width, key_opt, stored, nx) ==
    IF key_opt # << >>
    THEN [out |-> random_bits_checked(shape, width, key_opt[1]),
          key_ |-> stored, drew |-> FALSE, ret |-> NoKey]
    ELSE [out |-> random_bits_checked(shape, width,
                      KeyArray(<< 2 >>, "uint32", nx.ret)),
          key_ |-> nx.key_, drew |-> TRUE, ret |-> nx.ret]

\* array bits(shape, width, key_, s) called while the default KeySequence
\* stores `stored`.  The key is taken first (KeySequence::default_().next()
\* when none is given), the checks of the key and of the width follow.
\* Returns the outcome and the key the default KeySequence stores
\* afterwards.
random_bits(shape, width, key_opt, stored) ==
    random_bits_keyed(shape, width, key_opt, stored, KeySequence_next(stored))

\* bernoulli after bits(shape, key, s) returned b: less broadcasts its
\* operands or throws, then the shape of the result is compared with `shape`
bernoulli_less(p, shape, b, res) ==
    IF b.out.status # "ok" THEN b
    ELSE IF ~res.ok
    THEN [b EXCEPT !.out = InvalidArgument("less", "broadcast_shapes")]
    ELSE IF res.shape # shape
    THEN [b EXCEPT !.out = InvalidArgument("bernoulli",
                                           "shape of p is incompatible")]
    ELSE [b EXCEPT !.out.op = "bernoulli", !.out.dtype = "bool_"]

\* array bernoulli(p, shape, key, s): the dtype of p is checked, then
\* less(bits(shape, key, s), multiply(p, upper, s), s) is built (bits takes
\* the key), then the shape of the result is checked.
bernoulli(p, shape, key_opt, stored) ==
    IF ~issubdtype_floating(p.dtype)
    THEN [out |-> InvalidArgument("bernoulli", "p must be a float type"),
          key_ |-> stored, drew |-> FALSE, ret |-> NoKey]
    ELSE bernoulli_less(p, shape, random_bits(shape, 4, key_opt, stored),
                        broadcast_shapes(shape, p.shape))

DrawShapes == { << >>, << 2 >>, << 3 >>, << 2, 3 >> }
BitsWidths == { 0, 1, 2, 3, 4, 8 }
\* explicit keys: well-formed ones, one of a wrong shape, one of a wrong dtype
KeyArgs ==
    { KeyArray(<< 2 >>, "uint32", k) : k \in Keys }
        \cup { KeyArray(<< 3 >>, "uint32", NoKey),
               KeyArray(<< 2 >>, "int32", NoKey) }
Probabilities == [shape : DrawShapes, dtype : { "float32", "int32" }]

InitDraw ==
    /\ \E s \in Seeds :
          /\ key_ = key(s)
          /\ lastSeed = s
    /\ returned = << >>
    /\ ThreadsIdle
    /\ CallIdle

\* the default KeySequence after a call: its stored key, and the key next()
\* handed out if the call took one
DrawEffect(r) ==
    /\ key_' = r.key_
    /\ returned' = IF r.drew THEN Append(returned, r.ret) ELSE returned
    /\ result' = r.out
    /\ UNCHANGED <<lastSeed, thrVars>>

\* random::bits(shape, width, key)
DrawBits ==
    /\ args.op = "none"
    /\ Len(returned) < MaxNext
    /\ \E shape \in DrawShapes, width \in BitsWidths, k \in Optional(KeyArgs) :
        /\ args' = [op |-> "bits", shape |-> shape, width |-> width,
                    key |-> k, p |-> << >>]
        /\ DrawEffect(random_bits(shape, width, k, key_))

\* random::bernoulli(p, shape, key)
DrawBernoulli ==
    /\ args.op = "none"
    /\ Len(returned) < MaxNext
    /\ \E p \in Probabilities, shape \in DrawShapes, k \in Optional(KeyArgs) :
        /\ args' = [op |-> "bernoulli", shape |-> shape, width |-> 4,
                    key |-> k, p |-> << p >>]
        /\ DrawEffect(bernoulli(p, shape, k, key_))

NextDraw == DrawBits \/ DrawBernoulli \/ Return

SpecDraw == InitDraw /\ [][NextDraw]_vars

\* the validation failures of the claim: a bits width outside {1, 2, 4}, a
\* bernoulli p whose shape does not fit the requested shape
FailedValidation(a, r) ==
    /\ r.status = "invalid_argument"
    /\ \/ a.op = "bits" /\ a.width \notin { 1, 2, 4 }
       \/ /\ a.op = "bernoulli"
          /\ LET b == broadcast_shapes(a.shape, a.p[1].shape)
             IN  ~b.ok \/ b.shape # a.shape

\* C28: a call of bits or bernoulli without an explicit key that fails
\* validation (width outside {1, 2, 4}; shape of p incompatible with the
\* requested shape) leaves the stored key of the default KeySequence
\* unchanged, and a call with an explicit key never changes it.
C28_FailedDrawKeepsKey ==
    [][ (args.op = "none" /\ args'.op \in { "bits", "bernoulli" })
            => /\ (args'.key = << >> /\ FailedValidation(args', result'))
                      => key_' = key_
               /\ args'.key # << >> => key_' = key_ ]_vars

(***************************************************************************)
(* mlx/backend/common/utils.h: elem_to_loc and ContiguousIterator         *)
(***************************************************************************)
\* rank of the arrays iterated over
MaxIterRank == 2

\* ldiv(n, d): quotient truncated towards zero, and the remainder
ldiv(n, d) ==
    LET q == IntSign(n) * IntSign(d) * (IntAbs(n) \div IntAbs(d))
    IN  [quot |-> q, rem |-> n - q * d]

RECURSIVE elem_to_loc_loop(_, _, _, _, _)
\* the loop of elem_to_loc from axis i (1-based) down to the first axis
elem_to_loc_loop(elem, shape, strides, i, loc) ==
    IF i < 1 THEN loc
    ELSE LET q_and_r == ldiv(elem, shape[i])
         IN  elem_to_loc_loop(q_and_r.quot, shape, strides, i - 1,
                              loc + q_and_r.rem * strides[i])

\* int64_t elem_to_loc(int elem, const Shape& shape, const Strides& strides)
elem_to_loc(elem, shape, strides) ==
    elem_to_loc_loop(elem, shape, strides, Len(shape), 0)

RECURSIVE collapse_loop(_, _, _, _, _)
\* collapse_contiguous_dims from axis i on: an axis of extent 1 is dropped,
\* an axis that continues the last collapsed axis contiguously is merged
\* into it, any other axis starts a new collapsed axis
collapse_loop(shape, strides, i, cshape, cstrides) ==
    IF i > Len(shape) THEN [shape |-> cshape, strides |-> cstrides]
    ELSE IF shape[i] = 1
    THEN collapse_loop(shape, strides, i + 1, cshape, cstrides)
    ELSE IF strides[i] * shape[i] # cstrides[Len(cstrides)]
    THEN collapse_loop(shape, strides, i + 1,
                       Append(cshape, shape[i]), Append(cstrides, strides[i]))
    ELSE collapse_loop(shape, strides, i + 1,
             [cshape EXCEPT ![Len(cshape)] = @ * shape[i]],
             [cstrides EXCEPT ![Len(cstrides)] = strides[i]])

\* std::pair<Shape, Strides> collapse_contiguous_dims(shape, strides), the
\* size cap at its default (no collapsed extent comes near it)
collapse_contiguous_dims(shape, strides) ==
    IF Len(shape) = 0 THEN [shape |-> << >>, strides |-> << >>]
    ELSE collapse_loop(shape, strides, 2, << shape[1] >>, << strides[1] >>)

\* ContiguousIterator(shape, strides, dims): the first dims axes, collapsed;
\* ContiguousIterator(a) is the case dims = a.ndim()
ContiguousIterator(shape, strides, dims) ==
    LET c == collapse_contiguous_dims(SubSeq(shape, 1, dims),
                                      SubSeq(strides, 1, dims))
    IN  [shape_ |-> c.shape, strides_ |-> c.strides,
         pos_ |-> [i \in 1 .. Len(c.shape) |-> 0], loc |-> 0]

\* void reset()
ContiguousIterator_reset(it) ==
    [it EXCEPT !.loc = 0, !.pos_ = [i \in 1 .. Len(it.pos_) |-> 0]]

RECURSIVE step_loop_no_rewind(_, _)
\* A step whose carry leaves loc at the end of the axis it wraps.
step_loop_no_rewind(it, i) ==
    IF it.pos_[i] = it.shape_[i] - 1 /\ i > 1
    THEN step_loop_no_rewind([it EXCEPT !.pos_[i] = 0], i - 1)
    ELSE [it EXCEPT !.pos_[i] = @ + 1, !.loc = @ + it.strides_[i]]

RECURSIVE step_loop(_, _)
\* the while loop of step() at axis i (1-based) and the increment after it
step_loop(it, i) ==
    IF it.pos_[i] = it.shape_[i] - 1 /\ i > 1
    THEN step_loop([it EXCEPT !.pos_[i] = 0,
                              !.loc = @ - (it.shape_[i] - 1) * it.strides_[i]],
                   i - 1)
    ELSE [it EXCEPT !.pos_[i] = @ + 1, !.loc = @ + it.strides_[i]]

\* inline void step()
ContiguousIterator_step(it) ==
    IF Len(it.shape_) = 0 THEN it
    ELSE step_loop(it, Len(it.shape_))

RECURSIVE seek_loop(_, _, _)
\* the loop of seek() from axis i (1-based) down to the first axis
seek_loop(it, i, n) ==
    IF i < 1 THEN it
    ELSE LET q_and_r == ldiv(n, it.shape_[i])
         IN  seek_loop([it EXCEPT !.loc = @ + q_and_r.rem * it.strides_[i],
                                  !.pos_[i] = q_and_r.rem],
                       i - 1, q_and_r.quot)

\* void seek(int64_t n)
ContiguousIterator_seek(it, n) ==
    seek_loop([it EXCEPT !.loc = 0], Len(it.shape_), n)

IterExtents == { 1, 2, 3 }
IterStrides == { -1, 0, 1, 2, 3 }
IterShapes == SeqsUpTo(IterExtents, MaxIterRank)

InitIter ==
    /\ RngIdle
    /\ ThreadsIdle
    /\ CallIdle

\* the arguments of the constructor, the element the iterator stands at (0
\* after construction and reset(), one more after step(), n after seek(n)),
\* and how it got there: by reset() or seek(n) and the steps made since
IterAt(a, elem, by, steps) ==
    [op |-> "ContiguousIterator", shape |-> a.shape, strides |-> a.strides,
     dims |-> a.dims, elem |-> elem, by |-> by, steps |-> steps]

\* ContiguousIterator it(shape, strides, dims) / ContiguousIterator it(a)
Construct ==
    /\ args.op = "none"
    /\ \E shape \in IterShapes :
       \E strides \in [1 .. Len(shape) -> IterStrides], dims \in 0 .. Len(shape) :
        /\ args' = IterAt([shape |-> shape, strides |-> strides,
                           dims |-> dims], 0, "reset", 0)
        /\ result' = ContiguousIterator(shape, strides, dims)
    /\ UNCHANGED <<rngVars, thrVars>>

\* it.reset()
Reset ==
    /\ args.op = "ContiguousIterator"
    /\ args' = IterAt(args, 0, "reset", 0)
    /\ result' = ContiguousIterator_reset(result)
    /\ UNCHANGED <<rngVars, thrVars>>

\* it.step(), followed up to the first step beyond the last element
Step ==
    /\ args.op = "ContiguousIterator"
    /\ args.elem < ShapeProduct(result.shape_)
    /\ args' = IterAt(args, args.elem + 1, args.by, args.steps + 1)
    /\ result' = ContiguousIterator_step(result)
    /\ UNCHANGED <<rngVars, thrVars>>

\* it.seek(n)
Seek ==
    /\ args.op = "ContiguousIterator"
    /\ \E n \in 0 .. ShapeProduct(result.shape_) :
        /\ args' = IterAt(args, n, "seek", 0)
        /\ result' = ContiguousIterator_seek(result, n)
    /\ UNCHANGED <<rngVars, thrVars>>

NextIter == Construct \/ Reset \/ Step \/ Seek \/ Return

SpecIter == InitIter /\ [][NextIter]_vars

RECURSIVE StepsAfterReset(_, _)
\* the iterator after reset() and n calls of step()
StepsAfterReset(it, n) ==
    IF n = 0 THEN ContiguousIterator_reset(it)
    ELSE ContiguousIterator_step(StepsAfterReset(it, n - 1))

\* C30: for an iterator over extents >= 1 and any strides, standing at
\* element n < product of the extents after reset() and n steps, after
\* seek(n), or after seek(m) and n - m steps: loc is elem_to_loc(n, shape,
\* strides), for the iterator's collapsed axes and for the axes it was
\* constructed over alike, every pos[i] lies in 0 .. shape[i] - 1, and loc
\* and pos are those of reset() followed by n steps.
C30_IteratorFollowsElemToLoc ==
    (args.op = "ContiguousIterator" /\ args.elem < ShapeProduct(result.shape_))
        => /\ result.loc
                 = elem_to_loc(args.elem, result.shape_, result.strides_)
           /\ result.loc
                 = elem_to_loc(args.elem, SubSeq(args.shape, 1, args.dims),
                               SubSeq(args.strides, 1, args.dims))
           /\ \A i \in 1 .. Len(result.pos_) :
                 0 <= result.pos_[i] /\ result.pos_[i] < result.shape_[i]
           /\ result = StepsAfterReset(result, args.elem)

\* C30 witness: seek(n) followed by steps that carry into the first axis,
\* over two axes that do not collapse, one with a negative stride
C30_Witness ==
    /\ args.op = "ContiguousIterator"
    /\ args.by = "seek"
    /\ args.steps >= 2
    /\ Len(result.shape_) = 2
    /\ result.strides_[1] < 0
    /\ result.pos_[1] = 2
    /\ result.pos_[2] = 0
    /\ args.elem = 2 * result.shape_[2]
    /\ result.loc = 2 * result.strides_[1]

\* an iterator whose constructor collapsed two axes into one, after steps
C30_WitnessCollapsed ==
    /\ args.op = "ContiguousIterator"
    /\ args.dims = 2
    /\ Len(result.shape_) = 1
    /\ args.shape[1] > 1
    /\ args.shape[2] > 1
    /\ args.by = "reset"
    /\ args.steps = result.shape_[1] - 1
    /\ args.elem = result.shape_[1] - 1
====
